---- MODULE Spec2Model ----
(***************************************************************************)
(* A model of the AutoCorrect backend's correction pipeline:               *)
(*   backend/models/spell_checker.py   LevenshteinSpellChecker             *)
(*   backend/models/ngram_model.py     NgramModel                          *)
(*   backend/api/correction_endpoint.py CorrectionService                  *)
(*   backend/utils/cache.py            CorrectionCache                     *)
(* Python str values are TLA+ strings; floats are exact rationals <<n,d>>  *)
(* in lowest terms (the 0.7/0.3 blends and the smoothed n-gram quotients   *)
(* are computed exactly, not in binary floating point).                    *)
(***************************************************************************)
EXTENDS Integers, Sequences, FiniteSets, TLC

VARIABLES
    dictSource,       \* the dictionary file: whether it exists, and its lines
    dictionary,       \* LevenshteinSpellChecker.dictionary (a set of words)
    iterOrder,        \* the order in which iterating self.dictionary yields it
    spellCall,        \* the last get_corrections call and what it returned
    ngram,            \* the NgramModel object: order, the four tables, vocabulary,
                      \* total_words, trained
    ngCall,           \* the last NgramModel query and what it returned or raised
    ngQueries,        \* how many queries the model has answered
    service,          \* the CorrectionService object: whether initialize() has run,
                      \* neural_corrector (None or loaded), total_requests
    cache,            \* the CorrectionCache object: its backend, what the backend
                      \* stores under each key, hits, misses, total_requests
    pc,               \* where the request being served is: idle, neural (inside
                      \* the neural corrector's call), hung, done
    request,          \* the CorrectionRequest being served
    neuralCall,       \* what the neural corrector's call returned or raised
    response,         \* what correct_text returned or raised
    now,              \* the time, as time.time() and the cache backend read it
    cacheCall,        \* the last call of the cache on its own, and what it gave
    cacheSets,        \* under each cache key, the last correction set and when
    ngFile,           \* the file at the n-gram model's path
    levCall           \* the strings measured last and their distances

vars == <<dictSource, dictionary, iterOrder, spellCall, ngram, ngCall, ngQueries,
          service, cache, pc, request, neuralCall, response,
          now, cacheCall, cacheSets, ngFile, levCall>>

spellVars == <<dictSource, dictionary, iterOrder, spellCall>>
ngramVars == <<ngram, ngCall, ngQueries>>
serviceVars == <<service, cache, pc, request, neuralCall, response>>
otherVars == <<now, cacheCall, cacheSets, ngFile, levCall>>

(***************************************************************************)
(* Python str methods                                                      *)
(***************************************************************************)
UpperLetters == "ABCDEFGHIJKLMNOPQRSTUVWXYZ"
LowerLetters == "abcdefghijklmnopqrstuvwxyz"
Digits == "0123456789"

Ch(s, i) == SubSeq(s, i, i)

Chars(s) == {Ch(s, i) : i \in 1..Len(s)}

IndexIn(c, alphabet) ==
    IF \E i \in 1..Len(alphabet) : Ch(alphabet, i) = c
    THEN CHOOSE i \in 1..Len(alphabet) : Ch(alphabet, i) = c
    ELSE 0

UpperSet == Chars(UpperLetters)
LowerSet == Chars(LowerLetters)
DigitSet == Chars(Digits)

LowerMap == [c \in UpperSet |-> Ch(LowerLetters, IndexIn(c, UpperLetters))]
UpperMap == [c \in LowerSet |-> Ch(UpperLetters, IndexIn(c, LowerLetters))]

isalpha_ch(c) == c \in UpperSet \/ c \in LowerSet
isspace_ch(c) == c \in {" ", "\t", "\n"}
\* a character the regex class \w matches
isword_ch(c) == isalpha_ch(c) \/ c \in DigitSet \/ c = "_"

lower_ch(c) == IF c \in UpperSet THEN LowerMap[c] ELSE c
upper_ch(c) == IF c \in LowerSet THEN UpperMap[c] ELSE c

RECURSIVE lower(_)
lower(s) == IF s = "" THEN "" ELSE lower_ch(Head(s)) \o lower(Tail(s))

\* str.isupper: some cased character, and no lowercase one
isupper(s) ==
    /\ \E i \in 1..Len(s) : Ch(s, i) \in UpperSet
    /\ \A i \in 1..Len(s) : Ch(s, i) \notin LowerSet

\* str.capitalize: first character uppercased, the rest lowercased
capitalize(s) == IF s = "" THEN "" ELSE upper_ch(Head(s)) \o lower(Tail(s))

RECURSIVE lstrip(_)
lstrip(s) == IF s # "" /\ isspace_ch(Head(s)) THEN lstrip(Tail(s)) ELSE s

RECURSIVE rstrip(_)
rstrip(s) ==
    IF s # "" /\ isspace_ch(Ch(s, Len(s)))
    THEN rstrip(SubSeq(s, 1, Len(s) - 1))
    ELSE s

strip(s) == rstrip(lstrip(s))

\* str.split() with no separator: the maximal runs of non-whitespace
RECURSIVE SplitFrom(_, _, _)
SplitFrom(s, cur, acc) ==
    IF s = ""
    THEN IF cur = "" THEN acc ELSE Append(acc, cur)
    ELSE IF isspace_ch(Head(s))
         THEN SplitFrom(Tail(s), "", IF cur = "" THEN acc ELSE Append(acc, cur))
         ELSE SplitFrom(Tail(s), cur \o Head(s), acc)

split(s) == SplitFrom(s, "", <<>>)

\* sep.join(parts)
RECURSIVE join(_, _)
join(sep, parts) ==
    IF parts = <<>> THEN ""
    ELSE IF Len(parts) = 1 THEN parts[1]
    ELSE parts[1] \o sep \o join(sep, Tail(parts))

Contains(s, c) == \E i \in 1..Len(s) : Ch(s, i) = c

Range(f) == {f[i] : i \in DOMAIN f}

Min2(a, b) == IF a <= b THEN a ELSE b

\* list[:n]
Take(seq, n) == SubSeq(seq, 1, Min2(n, Len(seq)))

(***************************************************************************)
(* Exact arithmetic on non-negative rationals <<numerator, denominator>>   *)
(***************************************************************************)
RECURSIVE GCD(_, _)
GCD(a, b) == IF b = 0 THEN a ELSE GCD(b, a % b)

Rat(n, d) == LET g == GCD(n, d) IN <<n \div g, d \div g>>
RatInt(n) == <<n, 1>>
RatAdd(a, b) == Rat(a[1] * b[2] + b[1] * a[2], a[2] * b[2])
RatMul(a, b) == Rat(a[1] * b[1], a[2] * b[2])
RatDiv(a, b) == Rat(a[1] * b[2], a[2] * b[1])
RatLt(a, b) == a[1] * b[2] < b[1] * a[2]
RatLe(a, b) == a[1] * b[2] <= b[1] * a[2]
RatMin(a, b) == IF RatLe(a, b) THEN a ELSE b

\* list.sort(key=...) is stable. Items are sorted as <<key, item>> pairs with
\* rational keys: x goes in front of the first element that must follow it.
RECURSIVE InsertStable(_, _, _)
InsertStable(sorted, x, reverse) ==
    IF sorted = <<>> THEN <<x>>
    ELSE IF (IF reverse THEN RatLt(Head(sorted)[1], x[1])
                        ELSE RatLt(x[1], Head(sorted)[1]))
         THEN <<x>> \o sorted
         ELSE <<Head(sorted)>> \o InsertStable(Tail(sorted), x, reverse)

RECURSIVE StableSortInto(_, _, _)
StableSortInto(sorted, rest, reverse) ==
    IF rest = <<>> THEN sorted
    ELSE StableSortInto(InsertStable(sorted, Head(rest), reverse), Tail(rest), reverse)

\* keyed: a sequence of <<key, item>>; the items in sorted order
StableSort(keyed, reverse) ==
    LET sorted == StableSortInto(<<>>, keyed, reverse)
    IN [i \in 1..Len(sorted) |-> sorted[i][2]]

(***************************************************************************)
(* backend/models/spell_checker.py: LevenshteinSpellChecker                *)
(***************************************************************************)
_load_common_misspellings ==
    ("teh" :> "the") @@ ("adn" :> "and") @@ ("hte" :> "the") @@
    ("taht" :> "that") @@ ("thier" :> "their") @@ ("recieve" :> "receive") @@
    ("occured" :> "occurred") @@ ("occurance" :> "occurrence") @@
    ("seperate" :> "separate") @@ ("definately" :> "definitely") @@
    ("publically" :> "publicly") @@ ("untill" :> "until") @@
    ("wich" :> "which") @@ ("begining" :> "beginning") @@
    ("refered" :> "referred") @@ ("accross" :> "across") @@
    ("thru" :> "through") @@ ("goverment" :> "government") @@
    ("enviroment" :> "environment") @@ ("realy" :> "really") @@
    ("wierd" :> "weird") @@ ("beleive" :> "believe") @@
    ("acheive" :> "achieve") @@ ("existance" :> "existence") @@
    ("occassion" :> "occasion") @@ ("necesary" :> "necessary") @@
    ("neccessary" :> "necessary") @@ ("tommorow" :> "tomorrow") @@
    ("tommorrow" :> "tomorrow") @@ ("succesful" :> "successful") @@
    ("basicly" :> "basically") @@ ("finaly" :> "finally") @@
    ("freind" :> "friend") @@ ("mispell" :> "misspell") @@
    ("alot" :> "a lot") @@ ("aswell" :> "as well") @@
    ("infact" :> "in fact") @@ ("ofcourse" :> "of course")

common_misspellings == _load_common_misspellings

\* the fallback minimal dictionary, in the order the source lists it
FallbackWords ==
    <<"the", "be", "to", "of", "and", "a", "in", "that", "have",
      "i", "it", "for", "not", "on", "with", "he", "as", "you",
      "do", "at", "this", "but", "his", "from", "they", "we",
      "say", "her", "she", "or", "an", "will", "my", "one", "all",
      "would", "there", "their">>

\* re.match(r'^[a-z]+$', word)
IsAZ(word) == word # "" /\ \A i \in 1..Len(word) : Ch(word, i) \in LowerSet

\* src: [exists |-> whether the dictionary file exists, lines |-> its lines]
_load_dictionary(src) ==
    IF src.exists
    THEN {w \in {lower(strip(line)) : line \in src.lines} : IsAZ(w)}
    ELSE Range(FallbackWords)

phonetic_mappings ==
    << <<"nite", "night">>, <<"lite", "light">>, <<"thru", "through">>,
       <<"u", "you">>, <<"ur", "your">>, <<"r", "are">>, <<"c", "see">>,
       <<"k", "okay">>, <<"ppl", "people">>, <<"msg", "message">>,
       <<"txt", "text">>, <<"thx", "thanks">>, <<"pls", "please">> >>

frequency_tiers ==
    [tier1 |-> {"the", "be", "to", "of", "and", "a", "in", "that", "have",
                "I", "it", "for", "not", "on", "with", "he", "as", "you",
                "do", "at"},
     tier2 |-> {"this", "but", "his", "by", "from", "they", "we", "say",
                "her", "she", "or", "an", "will", "my", "one", "all", "would",
                "there", "their", "what"},
     tier3 |-> {"so", "up", "out", "if", "about", "who", "get", "which",
                "go", "me", "when", "make", "can", "like", "time", "no",
                "just", "him", "know", "take"},
     tier4 |-> {"people", "into", "year", "your", "good", "some", "could",
                "them", "see", "other", "than", "then", "now", "look",
                "only", "come", "its", "over", "think", "also", "back",
                "after", "use", "two", "how", "our", "work", "first", "well"}]

\* __init__: the dictionary with every known misspelling discarded
Mut_init_keeps_misspellings(src) == _load_dictionary(src)

LevenshteinSpellChecker_init(src) ==
    _load_dictionary(src) \ DOMAIN common_misspellings

is_valid_word(word) == lower(word) \in dictionary

Min3(a, b, c) == Min2(a, Min2(b, c))

\* the inner loop over s2: current_row, which has j entries, extended by
\* columns j..len(s2)
\* the inner loop with a substitution that costs 1 also for equal characters
RECURSIVE Mut_LevRow_substitution_always_costs(_, _, _, _, _)
Mut_LevRow_substitution_always_costs(previous_row, current_row, c1, s2, j) ==
    IF Len(current_row) > Len(s2) THEN current_row
    ELSE LET insertions == previous_row[j + 1] + 1
             deletions == current_row[j] + 1
             substitutions == previous_row[j] + 1
         IN Mut_LevRow_substitution_always_costs(previous_row,
                   Append(current_row, Min3(insertions, deletions, substitutions)),
                   c1, s2, j + 1)

RECURSIVE LevRow(_, _, _, _, _)
LevRow(previous_row, current_row, c1, s2, j) ==
    IF Len(current_row) > Len(s2) THEN current_row
    ELSE LET insertions == previous_row[j + 1] + 1
             deletions == current_row[j] + 1
             substitutions == previous_row[j] + (IF c1 # Ch(s2, j) THEN 1 ELSE 0)
         IN LevRow(previous_row,
                   Append(current_row, Min3(insertions, deletions, substitutions)),
                   c1, s2, j + 1)

\* the outer loop over s1 from its i-th character on
RECURSIVE LevRows(_, _, _, _)
LevRows(s1, s2, i, previous_row) ==
    IF i > Len(s1) THEN previous_row[Len(previous_row)]
    ELSE LevRows(s1, s2, i + 1, LevRow(previous_row, <<i>>, Ch(s1, i), s2, 1))

RECURSIVE levenshtein_distance(_, _)
levenshtein_distance(s1, s2) ==
    IF Len(s1) < Len(s2) THEN levenshtein_distance(s2, s1)
    ELSE IF Len(s2) = 0 THEN Len(s1)
    ELSE LevRows(s1, s2, 1, [j \in 1..(Len(s2) + 1) |-> j - 1])

get_frequency_weight(word) ==
    LET word_lower == lower(word)
    IN IF word_lower \in frequency_tiers.tier1 THEN RatInt(10)
       ELSE IF word_lower \in frequency_tiers.tier2 THEN RatInt(5)
       ELSE IF word_lower \in frequency_tiers.tier3 THEN RatInt(3)
       ELSE IF word_lower \in frequency_tiers.tier4 THEN Rat(3, 2)
       ELSE RatInt(1)

Abs(n) == IF n < 0 THEN 0 - n ELSE n

MaxEditDistance == 2
CandidateCap == 20

generate_edit_candidates(word, max_distance) ==
    LET word_lower == lower(word)
        near(dict_word) ==
            /\ Abs(Len(dict_word) - Len(word_lower)) <= max_distance
            /\ levenshtein_distance(word_lower, dict_word) <= max_distance
            /\ levenshtein_distance(word_lower, dict_word) > 0
        candidates == SelectSeq(iterOrder, near)
        keyed == [i \in 1..Len(candidates) |->
                    <<RatInt(levenshtein_distance(word_lower, candidates[i])),
                      candidates[i]>>]
    IN IF word_lower \in DOMAIN common_misspellings
       THEN <<common_misspellings[word_lower]>>
       ELSE Take(StableSort(keyed, FALSE), CandidateCap)

\* re.sub(r'\b<pat>\b', repl, text, flags=re.IGNORECASE): every maximal run of
\* word characters that equals pat ignoring case becomes repl
RECURSIVE SubWordFrom(_, _, _, _, _)
SubWordFrom(s, run, out, pat, repl) ==
    LET flushed == out \o (IF lower(run) = pat THEN repl ELSE run)
    IN IF s = "" THEN flushed
       ELSE IF isword_ch(Head(s))
            THEN SubWordFrom(Tail(s), run \o Head(s), out, pat, repl)
            ELSE SubWordFrom(Tail(s), "", flushed \o Head(s), pat, repl)

RECURSIVE PhoneticFrom(_, _)
PhoneticFrom(corrected, k) ==
    IF k > Len(phonetic_mappings) THEN corrected
    ELSE PhoneticFrom(SubWordFrom(corrected, "", "", phonetic_mappings[k][1],
                                  phonetic_mappings[k][2]), k + 1)

apply_phonetic_fixes(text) == PhoneticFrom(text, 1)

\* the score with the weights of the two parts exchanged
Mut_score_candidate_weights_exchanged(word_lower, candidate) ==
    LET distance == levenshtein_distance(word_lower, candidate)
        edit_score == Rat(1, distance + 1)
        freq_weight == get_frequency_weight(candidate)
    IN RatAdd(RatMul(edit_score, Rat(3, 10)),
              RatMul(RatMin(RatDiv(freq_weight, RatInt(10)), RatInt(1)), Rat(7, 10)))

score_candidate(word_lower, candidate) ==
    LET distance == levenshtein_distance(word_lower, candidate)
        edit_score == Rat(1, distance + 1)
        freq_weight == get_frequency_weight(candidate)
    IN RatAdd(RatMul(edit_score, Rat(7, 10)),
              RatMul(RatMin(RatDiv(freq_weight, RatInt(10)), RatInt(1)), Rat(3, 10)))

\* get_corrections for a word that is neither a known misspelling nor valid
get_corrections_unknown(word, max_suggestions) ==
    LET word_lower == lower(word)
        candidates == generate_edit_candidates(word_lower, MaxEditDistance)
        phonetic_corrected == apply_phonetic_fixes(word_lower)
        scored_candidates ==
            [i \in 1..Len(candidates) |->
                <<candidates[i], score_candidate(word_lower, candidates[i])>>]
        keyed == [i \in 1..Len(scored_candidates) |->
                    <<scored_candidates[i][2], scored_candidates[i]>>]
    IN IF candidates = <<>>
       THEN IF phonetic_corrected # word_lower /\ is_valid_word(phonetic_corrected)
            THEN << <<phonetic_corrected, Rat(85, 100)>> >>
            ELSE << <<word, RatInt(0)>> >>
       ELSE Take(StableSort(keyed, TRUE), max_suggestions)

\* the "already correct" branch left out
Mut_get_corrections_no_valid_check(word, context, max_suggestions) ==
    IF lower(word) \in DOMAIN common_misspellings
    THEN << <<common_misspellings[lower(word)], Rat(95, 100)>> >>
    ELSE get_corrections_unknown(word, max_suggestions)

\* get_corrections: a list of <<suggestion, confidence>>
get_corrections(word, context, max_suggestions) ==
    LET word_lower == lower(word)
    IN IF word_lower \in DOMAIN common_misspellings
       THEN << <<common_misspellings[word_lower], Rat(95, 100)>> >>
       ELSE IF is_valid_word(word_lower)
       THEN << <<word, RatInt(1)>> >>
       ELSE get_corrections_unknown(word, max_suggestions)

(***************************************************************************)
(* backend/models/ngram_model.py: NgramModel                               *)
(* A Counter is a function from its keys to counts; a defaultdict(Counter) *)
(* is a function from its keys to Counters, and reading a missing key      *)
(* inserts it.                                                             *)
(***************************************************************************)
EmptyCounter == <<>>

CounterGet(counter, key) == IF key \in DOMAIN counter THEN counter[key] ELSE 0

\* counter[key] += 1
CounterInc(counter, key) == (key :> (CounterGet(counter, key) + 1)) @@ counter

\* table[key] on a defaultdict(Counter): the table afterwards
Touch(table, key) ==
    IF key \in DOMAIN table THEN table ELSE (key :> EmptyCounter) @@ table

\* table[key][token] += 1
TableInc(table, key, token) ==
    (key :> CounterInc(Touch(table, key)[key], token)) @@ table

NgramModel_init(order) ==
    [order |-> Min2(order, 4),
     unigrams |-> EmptyCounter,
     bigrams |-> <<>>,
     trigrams |-> <<>>,
     fourgrams |-> <<>>,
     vocabulary |-> {},
     total_words |-> 0,
     trained |-> FALSE]

\* re.findall(r'\b[a-z]+\b', text.lower()): the maximal runs of word characters
\* that consist of a-z only
RECURSIVE TokenizeFrom(_, _, _)
TokenizeFrom(s, run, tokens) ==
    LET flushed == IF IsAZ(run) THEN Append(tokens, run) ELSE tokens
    IN IF s = "" THEN flushed
       ELSE IF isword_ch(Head(s))
            THEN TokenizeFrom(Tail(s), run \o Head(s), tokens)
            ELSE TokenizeFrom(Tail(s), "", flushed)

_tokenize(text) == TokenizeFrom(lower(text), "", <<>>)

\* the loop of _add_tokens from the i-th token on
RECURSIVE AddTokensFrom(_, _, _)
AddTokensFrom(m, tokens, i) ==
    IF i > Len(tokens) THEN m
    ELSE LET token == tokens[i]
             m1 == [m EXCEPT !.vocabulary = @ \cup {token},
                             !.unigrams = CounterInc(@, token),
                             !.total_words = @ + 1]
             m2 == IF i > 1 /\ m.order >= 2
                   THEN [m1 EXCEPT !.bigrams = TableInc(@, tokens[i - 1], token)]
                   ELSE m1
             m3 == IF i > 2 /\ m.order >= 3
                   THEN [m2 EXCEPT !.trigrams =
                            TableInc(@, <<tokens[i - 2], tokens[i - 1]>>, token)]
                   ELSE m2
             m4 == IF i > 3 /\ m.order >= 4
                   THEN [m3 EXCEPT !.fourgrams =
                            TableInc(@, <<tokens[i - 3], tokens[i - 2], tokens[i - 1]>>,
                                     token)]
                   ELSE m3
         IN AddTokensFrom(m4, tokens, i + 1)

_add_tokens(m, tokens) == AddTokensFrom(m, tokens, 1)

FilterCounter(counter, min_count) ==
    [k \in {k \in DOMAIN counter : counter[k] >= min_count} |-> counter[k]]

FilterTable(table, min_count) ==
    LET kept == {prev \in DOMAIN table :
                    DOMAIN FilterCounter(table[prev], min_count) # {}}
    IN [prev \in kept |-> FilterCounter(table[prev], min_count)]

_filter_ngrams(m, min_count) ==
    [m EXCEPT !.unigrams = FilterCounter(@, min_count),
              !.bigrams = FilterTable(@, min_count),
              !.trigrams = IF m.order >= 3 THEN FilterTable(@, min_count) ELSE @,
              !.fourgrams = IF m.order >= 4 THEN FilterTable(@, min_count) ELSE @]

RECURSIVE TrainFrom(_, _, _)
TrainFrom(m, texts, i) ==
    IF i > Len(texts) THEN m
    ELSE TrainFrom(_add_tokens(m, _tokenize(texts[i])), texts, i + 1)

train(m, texts, min_count) ==
    [_filter_ngrams(TrainFrom(m, texts, 1), min_count) EXCEPT !.trained = TRUE]

\* what a call returns or raises
Returned(value) == [ok |-> TRUE, value |-> value]
Raised(error) == [ok |-> FALSE, error |-> error]

\* float division: a zero divisor raises ZeroDivisionError
PyDiv(num, den) ==
    IF den[1] = 0 THEN Raised("ZeroDivisionError") ELSE Returned(RatDiv(num, den))

DefaultSmoothing == Rat(1, 100)

_get_unigram_prob(m, word, smoothing) ==
    LET count == CounterGet(m.unigrams, word)
        total == RatAdd(RatInt(m.total_words),
                        RatMul(RatInt(Cardinality(m.vocabulary)), smoothing))
    IN PyDiv(RatAdd(RatInt(count), smoothing), total)

\* The _get_*_prob methods read the defaultdict tables with table[key], so each
\* yields the value returned or raised and the model as the reads leave it.
Mut_bigram_backoff_on_unseen_word(m, word, context, smoothing) ==
    IF context = <<>>
    THEN [result |-> _get_unigram_prob(m, word, smoothing), model |-> m]
    ELSE LET prev == context[Len(context)]
             touched == [m EXCEPT !.bigrams = Touch(@, prev)]
             bigram_count == CounterGet(touched.bigrams[prev], word)
             prev_count == CounterGet(m.unigrams, prev)
             vocab_size == Cardinality(m.vocabulary)
         IN IF bigram_count = 0
            THEN [result |-> _get_unigram_prob(touched, word, smoothing),
                  model |-> touched]
            ELSE [result |-> PyDiv(RatAdd(RatInt(bigram_count), smoothing),
                                   RatAdd(RatInt(prev_count),
                                          RatMul(RatInt(vocab_size), smoothing))),
                  model |-> touched]

_get_bigram_prob(m, word, context, smoothing) ==
    IF context = <<>>
    THEN [result |-> _get_unigram_prob(m, word, smoothing), model |-> m]
    ELSE LET prev == context[Len(context)]
             touched == [m EXCEPT !.bigrams = Touch(@, prev)]
             bigram_count == CounterGet(touched.bigrams[prev], word)
             prev_count == CounterGet(m.unigrams, prev)
             vocab_size == Cardinality(m.vocabulary)
         IN IF prev_count = 0
            THEN [result |-> _get_unigram_prob(touched, word, smoothing),
                  model |-> touched]
            ELSE [result |-> PyDiv(RatAdd(RatInt(bigram_count), smoothing),
                                   RatAdd(RatInt(prev_count),
                                          RatMul(RatInt(vocab_size), smoothing))),
                  model |-> touched]

_get_trigram_prob(m, word, context, smoothing) ==
    IF Len(context) < 2
    THEN _get_bigram_prob(m, word, context, smoothing)
    ELSE LET prev2 == context[Len(context) - 1]
             prev1 == context[Len(context)]
             trigram_key == <<prev2, prev1>>
             touched == [m EXCEPT !.trigrams = Touch(@, trigram_key),
                                  !.bigrams = Touch(@, prev2)]
             trigram_count == CounterGet(touched.trigrams[trigram_key], word)
             bigram_count == CounterGet(touched.bigrams[prev2], prev1)
             vocab_size == Cardinality(m.vocabulary)
         IN IF bigram_count = 0
            THEN _get_bigram_prob(touched, word, <<prev1>>, smoothing)
            ELSE [result |-> PyDiv(RatAdd(RatInt(trigram_count), smoothing),
                                   RatAdd(RatInt(bigram_count),
                                          RatMul(RatInt(vocab_size), smoothing))),
                  model |-> touched]

_get_fourgram_prob(m, word, context, smoothing) ==
    IF Len(context) < 3
    THEN _get_trigram_prob(m, word, context, smoothing)
    ELSE LET prev3 == context[Len(context) - 2]
             prev2 == context[Len(context) - 1]
             prev1 == context[Len(context)]
             fourgram_key == <<prev3, prev2, prev1>>
             touched == [m EXCEPT !.fourgrams = Touch(@, fourgram_key),
                                  !.trigrams = Touch(@, <<prev3, prev2>>)]
             fourgram_count == CounterGet(touched.fourgrams[fourgram_key], word)
             trigram_count == CounterGet(touched.trigrams[<<prev3, prev2>>], prev1)
             vocab_size == Cardinality(m.vocabulary)
         IN IF trigram_count = 0
            THEN _get_trigram_prob(touched, word, <<prev2, prev1>>, smoothing)
            ELSE [result |-> PyDiv(RatAdd(RatInt(fourgram_count), smoothing),
                                   RatAdd(RatInt(trigram_count),
                                          RatMul(RatInt(vocab_size), smoothing))),
                  model |-> touched]

\* context[-n:]
LastN(seq, n) == IF Len(seq) <= n THEN seq ELSE SubSeq(seq, Len(seq) - n + 1, Len(seq))

\* [w.lower() for w in context if w]
NormalizeContext(context) ==
    LET kept == SelectSeq(context, LAMBDA w : w # "")
    IN [i \in 1..Len(kept) |-> lower(kept[i])]

\* get_probability without the test of the trained flag
Mut_get_probability_ignores_trained(m, word, context, smoothing) ==
    LET w == lower(word)
        ctx == NormalizeContext(context)
    IN IF Len(ctx) >= 3 /\ m.order >= 4
       THEN _get_fourgram_prob(m, w, LastN(ctx, 3), smoothing)
       ELSE IF Len(ctx) >= 2 /\ m.order >= 3
       THEN _get_trigram_prob(m, w, LastN(ctx, 2), smoothing)
       ELSE IF Len(ctx) >= 1 /\ m.order >= 2
       THEN _get_bigram_prob(m, w, LastN(ctx, 1), smoothing)
       ELSE [result |-> _get_unigram_prob(m, w, smoothing), model |-> m]

get_probability(m, word, context, smoothing) ==
    LET w == lower(word)
        ctx == NormalizeContext(context)
    IN IF ~m.trained
       THEN [result |-> Returned(smoothing), model |-> m]
       ELSE IF Len(ctx) >= 3 /\ m.order >= 4
       THEN _get_fourgram_prob(m, w, LastN(ctx, 3), smoothing)
       ELSE IF Len(ctx) >= 2 /\ m.order >= 3
       THEN _get_trigram_prob(m, w, LastN(ctx, 2), smoothing)
       ELSE IF Len(ctx) >= 1 /\ m.order >= 2
       THEN _get_bigram_prob(m, w, LastN(ctx, 1), smoothing)
       ELSE [result |-> _get_unigram_prob(m, w, smoothing), model |-> m]

\* the list comprehension of rank_candidates from the i-th candidate on; an
\* exception in get_probability ends it
RECURSIVE ScoreFrom(_, _, _, _, _)
\* r: what get_probability gave for candidates[i]
ScoreNext(r, candidates, context, i, scored) ==
    IF ~r.result.ok THEN r
    ELSE ScoreFrom(r.model, candidates, context, i + 1,
                   Append(scored, <<candidates[i], r.result.value>>))

\* the list comprehension of rank_candidates from candidates[i] on; each
\* get_probability is evaluated once, as a member of a singleton set
ScoreFrom(m, candidates, context, i, scored) ==
    IF i > Len(candidates) THEN [result |-> Returned(scored), model |-> m]
    ELSE CHOOSE s \in {ScoreNext(r, candidates, context, i, scored) :
                        r \in {get_probability(m, candidates[i], context,
                                               DefaultSmoothing)}} : TRUE

rank_candidates(m, candidates, context, top_k) ==
    LET s == ScoreFrom(m, candidates, context, 1, <<>>)
        scored_candidates == s.result.value
        keyed == [i \in 1..Len(scored_candidates) |->
                    <<scored_candidates[i][2], scored_candidates[i]>>]
    IN IF ~s.result.ok THEN s
       ELSE [result |-> Returned(Take(StableSort(keyed, TRUE), top_k)),
             model |-> s.model]

MostCommonCount == 100

\* set(counter.most_common(n)): the (token, count) items of the n highest
\* counts; among equal counts at the cut the earlier inserted token is kept,
\* which no counter of fewer than n tokens shows
most_common(counter, n) ==
    LET items == {<<k, counter[k]>> : k \in DOMAIN counter}
    IN IF Cardinality(items) <= n THEN items
       ELSE CHOOSE top \in SUBSET items :
                /\ Cardinality(top) = n
                /\ \A x \in top, y \in items \ top : x[2] >= y[2]

\* table[key].keys() when key is in the table, for a context that is long
\* enough and an order that is high enough
NextTokens(table, context, n, order, min_order) ==
    LET key == IF n = 1 THEN context[Len(context)] ELSE LastN(context, n)
    IN IF Len(context) >= n /\ order >= min_order /\ key \in DOMAIN table
       THEN DOMAIN table[key] ELSE {}

\* the candidate set of get_next_word_predictions, context already lowercased
ContextCandidates(m, context) ==
    NextTokens(m.fourgrams, context, 3, m.order, 4)
        \cup NextTokens(m.trigrams, context, 2, m.order, 3)
        \cup NextTokens(m.bigrams, context, 1, m.order, 2)

\* candidates after "if not candidates": tokens from the tables, or else the
\* (token, count) items of most_common
NextWordCandidates(m, context) ==
    IF ContextCandidates(m, context) # {}
    THEN [kind |-> "tokens", set |-> ContextCandidates(m, context)]
    ELSE [kind |-> "items", set |-> most_common(m.unigrams, MostCommonCount)]

\* rank_candidates over (token, count) items: an untrained model gives every
\* item the default smoothing before the word is read and the stable sort keeps
\* the order; a trained model calls lower() on a tuple
rank_items(m, items, context, top_k) ==
    IF items = <<>> THEN [result |-> Returned(<<>>), model |-> m]
    ELSE IF m.trained THEN [result |-> Raised("AttributeError"), model |-> m]
    ELSE [result |-> Returned(Take([i \in 1..Len(items) |->
                                        <<items[i], DefaultSmoothing>>], top_k)),
          model |-> m]

\* listed: list(candidates), the iteration order of the candidate set
get_next_word_predictions(m, context, top_k, listed) ==
    LET ctx == NormalizeContext(context)
    IN IF NextWordCandidates(m, ctx).kind = "items"
       THEN rank_items(m, listed, ctx, top_k)
       ELSE rank_candidates(m, listed, ctx, top_k)

(***************************************************************************)
(* save and load. A file holds what pickle.dump wrote, or what something   *)
(* else left there: bytes that are no pickle, the pickle of an object that *)
(* is no dict, of a dict that lacks keys, or of a dict with a value of     *)
(* another type.                                                           *)
(***************************************************************************)
\* dict(counter) and Counter(d): the same items in an object of the other type
dict_of(counter) == [k \in DOMAIN counter |-> counter[k]]
Counter_of(d) == [k \in DOMAIN d |-> d[k]]

\* {k: dict(v) for k, v in table.items()}
dicts_of(table) == [k \in DOMAIN table |-> dict_of(table[k])]

\* defaultdict(Counter, {k: Counter(v) for k, v in d.items()})
defaultdict_of(d) == [k \in DOMAIN d |-> Counter_of(d[k])]

\* the keys of model_data in the order in which load reads them
SnapshotKeys ==
    <<"order", "unigrams", "bigrams", "trigrams", "fourgrams", "vocabulary",
      "total_words", "trained">>

\* save without the contexts whose counter is empty
Mut_model_data_drops_empty_contexts(m) ==
    LET kept(table) == [k \in {c \in DOMAIN table : table[c] # EmptyCounter} |->
                            dict_of(table[k])]
    IN [order |-> m.order, unigrams |-> dict_of(m.unigrams),
        bigrams |-> kept(m.bigrams), trigrams |-> kept(m.trigrams),
        fourgrams |-> kept(m.fourgrams), vocabulary |-> m.vocabulary,
        total_words |-> m.total_words, trained |-> m.trained]

\* model_data of save
model_data_of(m) ==
    [order |-> m.order, unigrams |-> dict_of(m.unigrams),
     bigrams |-> dicts_of(m.bigrams), trigrams |-> dicts_of(m.trigrams),
     fourgrams |-> dicts_of(m.fourgrams), vocabulary |-> m.vocabulary,
     total_words |-> m.total_words, trained |-> m.trained]

\* pickle.dump(obj, f): the file afterwards
pickle_dump(obj) == [exists |-> TRUE, kind |-> "pickle", obj |-> obj]

\* pickle.load(f)
pickle_load(file) ==
    IF file.kind = "pickle" THEN Returned(file.obj) ELSE Raised("UnpicklingError")

\* save: the file afterwards
save(m) == pickle_dump([type |-> "dict", items |-> model_data_of(m)])

\* the value load assigns to the attribute key
Loaded(key, value) ==
    IF key = "unigrams" THEN Counter_of(value)
    ELSE IF key \in {"bigrams", "trigrams", "fourgrams"} THEN defaultdict_of(value)
    ELSE value

\* the assignments of load from the i-th key on; a key that is not there
\* raises KeyError, which load catches after the assignments made so far
RECURSIVE LoadFrom(_, _, _)
LoadFrom(m, model_data, i) ==
    IF i > Len(SnapshotKeys) THEN [result |-> Returned(TRUE), model |-> m]
    ELSE IF SnapshotKeys[i] \notin DOMAIN model_data
    THEN [result |-> Returned(FALSE), model |-> m]
    ELSE LoadFrom([m EXCEPT ![SnapshotKeys[i]] =
                        Loaded(SnapshotKeys[i], model_data[SnapshotKeys[i]])],
                  model_data, i + 1)

\* load: what it returns and the model afterwards
load(m, file) ==
    IF ~file.exists THEN [result |-> Returned(FALSE), model |-> m]
    ELSE IF ~pickle_load(file).ok THEN [result |-> Returned(FALSE), model |-> m]
    ELSE IF pickle_load(file).value.type # "dict"
    THEN [result |-> Returned(FALSE), model |-> m]
    ELSE LoadFrom(m, pickle_load(file).value.items, 1)

(***************************************************************************)
(* backend/utils/cache.py: CorrectionCache                                 *)
(* The backend (diskcache or Redis) is a keyed store; hashlib.md5 is       *)
(* taken to be injective, so a key is the string that is hashed. The       *)
(* backend keeps an entry with the time at which its time to live is over. *)
(***************************************************************************)
None == [none |-> TRUE]

\* backend: "disk", "redis", or "none" when neither could be set up
CorrectionCache_init(backend, ttl) ==
    [backend |-> backend, ttl |-> ttl, store |-> <<>>, hits |-> 0, misses |-> 0,
     total_requests |-> 0]

_generate_key(text, context, model_type) ==
    LET text_lower == strip(lower(text))
        context_str == join("|", context)
        key_data == model_type \o ":" \o text_lower \o ":" \o context_str
    IN "correction:" \o key_data

\* json.dumps of a correction and json.loads of what it gave
json_dumps(correction) == [json |-> <<correction[1], correction[2]>>]
json_loads(cached_data) == cached_data.json

\* what the backend holds under a key at time t: an entry is gone once its
\* time to live is over
\* a backend that never lets an entry expire
Mut_BackendGet_never_expires(c, key, t) ==
    IF key \in DOMAIN c.store THEN c.store[key].data ELSE None

BackendGet(c, key, t) ==
    IF key \in DOMAIN c.store /\ t < c.store[key].expire_time
    THEN c.store[key].data
    ELSE None

\* get at time t: the value returned and the cache afterwards
CacheGetResult(c, counted, result) ==
    IF result # None
    THEN [result |-> <<result[1], result[2]>>,
          cache |-> [counted EXCEPT !.hits = @ + 1]]
    ELSE [result |-> None, cache |-> [counted EXCEPT !.misses = @ + 1]]

cache_get(c, text, context, model_type, t) ==
    IF c.backend = "disk"
    THEN CacheGetResult(c, [c EXCEPT !.total_requests = @ + 1],
                        BackendGet(c, _generate_key(text, context, model_type), t))
    ELSE IF c.backend = "redis"
    THEN CacheGetResult(c, [c EXCEPT !.total_requests = @ + 1],
                        IF BackendGet(c, _generate_key(text, context, model_type), t)
                           # None
                        THEN json_loads(BackendGet(c, _generate_key(text, context,
                                                                    model_type), t))
                        ELSE None)
    ELSE [result |-> None,
          cache |-> [c EXCEPT !.total_requests = @ + 1, !.misses = @ + 1]]

\* set at time t: the cache afterwards
cache_set(c, text, correction, context, model_type, t) ==
    LET key == _generate_key(text, context, model_type)
    IN IF c.backend = "disk"
       THEN [c EXCEPT !.store = (key :> [data |-> correction,
                                         expire_time |-> t + c.ttl]) @@ @]
       ELSE IF c.backend = "redis"
       THEN [c EXCEPT !.store = (key :> [data |-> json_dumps(correction),
                                         expire_time |-> t + c.ttl]) @@ @]
       ELSE c

\* clear: the cache afterwards
cache_clear(c) == IF c.backend # "none" THEN [c EXCEPT !.store = <<>>] ELSE c

(***************************************************************************)
(* backend/api/correction_endpoint.py: CorrectionService                   *)
(* The neural corrector is an external collaborator: a call of it returns  *)
(* a value, raises, or never returns. processing_time_ms is left out of    *)
(* the responses.                                                          *)
(***************************************************************************)
MIN_CONFIDENCE_THRESHOLD == Rat(95, 100)

Suggestion(text, confidence, source) ==
    [text |-> text, confidence |-> confidence, source |-> source]

CorrectionResponse(original, corrected, suggestions, confidence, cached, changes_made) ==
    [original |-> original, corrected |-> corrected, suggestions |-> suggestions,
     confidence |-> confidence, cached |-> cached, changes_made |-> changes_made]

OriginalResponse(text) ==
    CorrectionResponse(text, text, <<Suggestion(text, RatInt(1), "original")>>,
                       RatInt(1), FALSE, FALSE)

\* any(c.isalpha() for c in word)
AnyAlpha(word) == \E i \in 1..Len(word) : isalpha_ch(Ch(word, i))

\* The first pass of _auto_correct. spell_corrected_text is assigned at the end
\* of an iteration that did not `continue`: it is unbound until then.
SpellPassStart ==
    [corrected_words |-> <<>>, any_corrections |-> FALSE, bound |-> FALSE,
     spell_corrected_text |-> ""]

\* the end of an iteration that asked the spell checker
AcceptSuggestion(st, word, spell_suggestions) ==
    LET accepted == /\ spell_suggestions # <<>>
                    /\ spell_suggestions[1][1] # lower(word)
        suggested == spell_suggestions[1][1]
        corrected_word ==
            IF Head(word) \in UpperSet /\ ~Contains(suggested, " ")
            THEN capitalize(suggested)
            ELSE suggested
        corrected_words ==
            IF accepted
            THEN IF Contains(corrected_word, " ")
                 THEN st.corrected_words \o split(corrected_word)
                 ELSE Append(st.corrected_words, corrected_word)
            ELSE Append(st.corrected_words, word)
    IN [corrected_words |-> corrected_words,
        any_corrections |-> st.any_corrections \/ accepted,
        bound |-> TRUE,
        spell_corrected_text |-> join(" ", corrected_words)]

SpellPassStep(st, word, context) ==
    IF word = "" \/ Len(word) < 2 \/ ~AnyAlpha(word)
    THEN [st EXCEPT !.corrected_words = Append(@, word)]
    ELSE IF isupper(word) /\ Len(word) > 1
    THEN [st EXCEPT !.corrected_words = Append(@, word)]
    ELSE AcceptSuggestion(st, word, get_corrections(word, context, 1))

RECURSIVE SpellPassFrom(_, _, _, _)
SpellPassFrom(st, words, i, context) ==
    IF i > Len(words) THEN st
    ELSE SpellPassFrom(SpellPassStep(st, words[i], context), words, i + 1, context)

SpellPass(text, context) == SpellPassFrom(SpellPassStart, split(text), 1, context)

\* whether _auto_correct reaches neural_corrector.correct_grammar
AutoCallsNeural(text, context, req, neural_corrector) ==
    /\ text # ""
    /\ req.use_neural /\ neural_corrector # "None" /\ Len(split(text)) # 1
    /\ SpellPass(text, context).bound

\* "Only apply correction if confidence meets threshold"
ApplyThreshold(text, final_text, final_confidence, suggestions) ==
    IF RatLt(final_confidence, MIN_CONFIDENCE_THRESHOLD) /\ text # final_text
    THEN CorrectionResponse(text, text,
                            <<Suggestion(text, RatInt(1), "original")>>,
                            RatInt(1), FALSE, FALSE)
    ELSE CorrectionResponse(text, final_text, suggestions, final_confidence,
                            FALSE, text # final_text)

\* final_text, final_confidence and suggestions of _auto_correct before the
\* threshold is applied. neural: what correct_grammar returned (a
\* <<text, confidence>>) or raised, read only when the call is made
BeforeGating(text, req, neural_corrector, neural, pass) ==
    LET spell_confidence == IF pass.any_corrections THEN Rat(9, 10) ELSE RatInt(1)
        failed_confidence == IF pass.any_corrections THEN Rat(8, 10) ELSE RatInt(1)
    IN IF req.use_neural /\ neural_corrector # "None" /\ Len(split(text)) # 1
       THEN IF neural.ok
            THEN [final_text |-> neural.value[1],
                  final_confidence |-> neural.value[2],
                  suggestions |-> <<Suggestion(neural.value[1], neural.value[2],
                                               "neural")>>]
            ELSE [final_text |-> pass.spell_corrected_text,
                  final_confidence |-> failed_confidence,
                  suggestions |-> <<Suggestion(pass.spell_corrected_text,
                                               failed_confidence, "spell")>>]
       ELSE [final_text |-> pass.spell_corrected_text,
             final_confidence |-> spell_confidence,
             suggestions |-> <<Suggestion(pass.spell_corrected_text,
                                          spell_confidence, "spell")>>]

\* _auto_correct after its first pass
SecondPass(text, req, neural_corrector, neural, pass) ==
    IF ~pass.bound THEN Raised("UnboundLocalError")
    ELSE LET result == BeforeGating(text, req, neural_corrector, neural, pass)
         IN Returned(ApplyThreshold(text, result.final_text,
                                    result.final_confidence, result.suggestions))

_auto_correct(text, context, req, neural_corrector, neural) ==
    IF text = "" THEN Returned(OriginalResponse(text))
    ELSE SecondPass(text, req, neural_corrector, neural, SpellPass(text, context))

\* the neural corrector called outside a try
Mut_correct_grammar_unguarded(text, req, neural_corrector, neural) ==
    IF neural_corrector = "None"
    THEN Returned(CorrectionResponse(text, text,
                      <<Suggestion(text, RatInt(0), "none")>>, RatInt(0), FALSE, FALSE))
    ELSE IF neural.ok
    THEN Returned(CorrectionResponse(text, neural.value[1],
                      <<Suggestion(neural.value[1], neural.value[2], "neural")>>,
                      neural.value[2], FALSE, text # neural.value[1]))
    ELSE Raised(neural.error)

_correct_grammar(text, req, neural_corrector, neural) ==
    IF neural_corrector = "None"
    THEN Returned(CorrectionResponse(text, text,
                      <<Suggestion(text, RatInt(0), "none")>>, RatInt(0), FALSE, FALSE))
    ELSE IF neural.ok
    THEN Returned(CorrectionResponse(text, neural.value[1],
                      <<Suggestion(neural.value[1], neural.value[2], "neural")>>,
                      neural.value[2], FALSE, text # neural.value[1]))
    ELSE Returned(CorrectionResponse(text, text,
                      <<Suggestion(text, RatInt(0), "error")>>, RatInt(0), FALSE, FALSE))

\* "Avoid duplicates": the neural alternatives whose text is not yet in the pool
RECURSIVE AppendNew(_, _, _)
AppendNew(all_suggestions, neural_alternatives, i) ==
    IF i > Len(neural_alternatives) THEN all_suggestions
    ELSE LET suggestion == neural_alternatives[i][1]
             confidence == neural_alternatives[i][2]
         IN IF \E j \in 1..Len(all_suggestions) : all_suggestions[j].text = suggestion
            THEN AppendNew(all_suggestions, neural_alternatives, i + 1)
            ELSE AppendNew(Append(all_suggestions,
                                  Suggestion(suggestion, confidence, "neural")),
                           neural_alternatives, i + 1)

FromSpell(spell_suggestions) ==
    [i \in 1..Len(spell_suggestions) |->
        Suggestion(spell_suggestions[i][1], spell_suggestions[i][2], "spell")]

\* the pool of _generate_suggestions before the n-gram model is consulted
SuggestionPool(text, context, max_suggestions, neural_corrector, neural) ==
    AppendNew(FromSpell(IF Len(split(text)) = 1
                        THEN get_corrections(text, context, max_suggestions)
                        ELSE <<>>),
              IF neural_corrector # "None" /\ neural.ok THEN neural.value ELSE <<>>,
              1)

\* a blend that adds the n-gram share to the whole confidence
Mut_Blend_adds_ngram_share(suggestion, ngram_prob) ==
    Suggestion(suggestion.text,
               RatAdd(suggestion.confidence, RatMul(ngram_prob, Rat(3, 10))),
               suggestion.source \o "+ngram")

\* "Blend original confidence with n-gram score"
Blend(suggestion, ngram_prob) ==
    Suggestion(suggestion.text,
               RatAdd(RatMul(suggestion.confidence, Rat(7, 10)),
                      RatMul(ngram_prob, Rat(3, 10))),
               suggestion.source \o "+ngram")

\* the first suggestion of the pool whose text is the ranked one is blended
BlendFirst(all_suggestions, ranked_text, ngram_prob) ==
    LET hits == {j \in 1..Len(all_suggestions) : all_suggestions[j].text = ranked_text}
    IN IF hits = {} THEN all_suggestions
       ELSE LET first == CHOOSE j \in hits : \A k \in hits : j <= k
            IN [all_suggestions EXCEPT ![first] = Blend(@, ngram_prob)]

RECURSIVE BlendRanked(_, _, _)
BlendRanked(all_suggestions, ranked, i) ==
    IF i > Len(ranked) THEN all_suggestions
    ELSE BlendRanked(BlendFirst(all_suggestions, ranked[i][1], ranked[i][2]),
                     ranked, i + 1)

SortByConfidence(all_suggestions) ==
    StableSort([i \in 1..Len(all_suggestions) |->
                   <<all_suggestions[i].confidence, all_suggestions[i]>>], TRUE)

\* the response of _generate_suggestions. text: what the name text is bound to
\* by then
SuggestionsResponse(text, top_suggestions) ==
    IF top_suggestions # <<>>
    THEN CorrectionResponse(text, top_suggestions[1].text, top_suggestions,
                            top_suggestions[1].confidence, FALSE,
                            text # top_suggestions[1].text)
    ELSE OriginalResponse(text)

\* the loop over the ranking rebinds the name text
TextAfterRanking(text, ranked) ==
    IF ranked # <<>> THEN ranked[Len(ranked)][1] ELSE text

\* _generate_suggestions from the ranking on. r: what rank_candidates gave
Reranked(text, max_suggestions, pool, r) ==
    IF ~r.result.ok THEN r
    ELSE [result |-> Returned(SuggestionsResponse(
                        TextAfterRanking(text, r.result.value),
                        Take(SortByConfidence(BlendRanked(pool, r.result.value, 1)),
                             max_suggestions))),
          model |-> r.model]

TextsOf(pool) == [i \in 1..Len(pool) |-> pool[i].text]

\* _generate_suggestions once the pool is built
RankPool(text, context, max_suggestions, pool, m) ==
    IF m.trained /\ context # <<>>
    THEN Reranked(text, max_suggestions, pool,
                  rank_candidates(m, TextsOf(pool), context, max_suggestions))
    ELSE [result |-> Returned(SuggestionsResponse(text,
                        Take(SortByConfidence(pool), max_suggestions))),
          model |-> m]

\* neural: what correct_with_alternatives returned (a list of <<text,
\* confidence>>) or raised, read only when the call is made. The result and the
\* n-gram model afterwards.
_generate_suggestions(text, context, max_suggestions, neural_corrector, neural, m) ==
    RankPool(text, context, max_suggestions,
             SuggestionPool(text, context, max_suggestions, neural_corrector, neural),
             m)

\* initialize(): a failed load of the neural model leaves neural_corrector None
initialize(svc, neural_loads) ==
    [svc EXCEPT !.initialized = TRUE,
                !.neural_corrector = IF @ = "None" /\ neural_loads THEN "loaded" ELSE @]

CorrectionService_init ==
    [initialized |-> FALSE, neural_corrector |-> "None", total_requests |-> 0]

\* whether serving the request reaches a call of the neural corrector
CallsNeural(svc, req) ==
    LET text == strip(req.text)
    IN IF req.mode = "grammar" \/ req.mode = "suggestions"
       THEN svc.neural_corrector # "None"
       ELSE AutoCallsNeural(text, req.context, req, svc.neural_corrector)

\* correct_text up to the choice of strategy: the cache lookup
CacheLookup(c, req, t) ==
    IF req.use_cache
    THEN cache_get(c, strip(req.text), req.context, "combined", t)
    ELSE [result |-> None, cache |-> c]

CachedResponse(text, cached_result) ==
    CorrectionResponse(text, cached_result[1],
                       <<Suggestion(cached_result[1], cached_result[2], "cache")>>,
                       cached_result[2], TRUE, text # cached_result[1])

\* correct_text after the strategy ran: the statistics and the cache write.
\* The result, and the n-gram model, the service and the cache afterwards
AfterStrategy(svc, c, req, run, t) ==
    IF ~run.result.ok
    THEN [result |-> run.result, model |-> run.model, service |-> svc, cache |-> c]
    ELSE [result |-> run.result, model |-> run.model,
          service |-> [svc EXCEPT !.total_requests = @ + 1],
          cache |-> IF req.use_cache /\ run.result.value.suggestions # <<>>
                    THEN cache_set(c, strip(req.text),
                                   <<run.result.value.suggestions[1].text,
                                     run.result.value.suggestions[1].confidence>>,
                                   req.context, "combined", t)
                    ELSE c]

\* correct_text from the choice of strategy on
Strategy(svc, c, m, req, neural, t) ==
    AfterStrategy(svc, c, req,
        IF req.mode = "grammar"
        THEN [result |-> _correct_grammar(strip(req.text), req, svc.neural_corrector,
                                          neural),
              model |-> m]
        ELSE IF req.mode = "suggestions"
        THEN _generate_suggestions(strip(req.text), req.context, req.max_suggestions,
                                   svc.neural_corrector, neural, m)
        ELSE [result |-> _auto_correct(strip(req.text), req.context, req,
                                       svc.neural_corrector, neural),
              model |-> m],
        t)

(***************************************************************************)
(* The spell checker on its own: constructed from a dictionary source,     *)
(* then queried.                                                           *)
(***************************************************************************)
MaxSug == 2

\* lines a dictionary file may hold
RawLines == {" The", "their", "thier", "package", "people", "it's"}

DictSources ==
    {[exists |-> FALSE, lines |-> {}]}
        \cup {[exists |-> TRUE, lines |-> L] : L \in SUBSET RawLines}

Perms(S) ==
    {f \in [1..Cardinality(S) -> S] :
        \A i, j \in 1..Cardinality(S) : i # j => f[i] # f[j]}

Reverse(seq) == [i \in 1..Len(seq) |-> seq[Len(seq) + 1 - i]]

\* The iteration order of a Python set of str is fixed within a process and
\* arbitrary across processes: every order for a loaded file, the listed order
\* and its reverse for the 38-word fallback.
IterOrders(src, words) ==
    IF src.exists THEN Perms(words)
    ELSE LET listed == SelectSeq(FallbackWords, LAMBDA w : w \in words)
         IN {listed, Reverse(listed)}

NoCall == [called |-> FALSE]

SpellWords == {"the", "The", "thier", "Thier", "pakage", "thei", "ppl", "xyz", "ot"}

SpellContexts == {<<>>, <<"the">>}

SpellConstructed ==
    /\ dictSource \in DictSources
    /\ dictionary = LevenshteinSpellChecker_init(dictSource)
    /\ iterOrder \in IterOrders(dictSource, dictionary)

\* the parts of the state a specification leaves alone
SpellIdle ==
    /\ dictSource = [exists |-> TRUE, lines |-> {"the", "their", "package"}]
    /\ dictionary = LevenshteinSpellChecker_init(dictSource)
    /\ iterOrder = <<"the", "their", "package">>
    /\ spellCall = NoCall

NgramIdle ==
    /\ ngram = NgramModel_init(4)
    /\ ngCall = NoCall
    /\ ngQueries = 0

ServiceIdle ==
    /\ service = CorrectionService_init
    /\ cache = CorrectionCache_init("disk", 1)
    /\ pc = "idle"
    /\ request = None
    /\ neuralCall = None
    /\ response = None

NoFile == [exists |-> FALSE]

OtherIdle ==
    /\ now = 0
    /\ cacheCall = NoCall
    /\ cacheSets = <<>>
    /\ ngFile = NoFile
    /\ levCall = NoCall

SpellInit ==
    /\ SpellConstructed
    /\ spellCall = NoCall
    /\ NgramIdle
    /\ ServiceIdle
    /\ OtherIdle

\* get_corrections leaves the checker as it was: the call that is followed is
\* the first one on a constructed checker
GetCorrections(word, context, max_suggestions) ==
    /\ ~spellCall.called
    /\ spellCall' = [called |-> TRUE, word |-> word, context |-> context,
                     max_suggestions |-> max_suggestions,
                     result |-> get_corrections(word, context, max_suggestions)]
    /\ UNCHANGED <<dictSource, dictionary, iterOrder>>
    /\ UNCHANGED ngramVars
    /\ UNCHANGED serviceVars
    /\ UNCHANGED otherVars

SpellNext ==
    \E word \in SpellWords, context \in SpellContexts, n \in 1..MaxSug :
        GetCorrections(word, context, n)

SpecSpell == SpellInit /\ [][SpellNext]_vars

\* C4: the misspelling check wins over dictionary validity: no key of the
\* misspelling map is in the constructed dictionary, and get_corrections of a
\* word whose lowercase form is a key returns exactly [(correction, 0.95)].
C4_MisspellingWins ==
    /\ \A key \in DOMAIN common_misspellings : key \notin dictionary
    /\ (spellCall.called /\ lower(spellCall.word) \in DOMAIN common_misspellings)
        => spellCall.result =
            << <<common_misspellings[lower(spellCall.word)], Rat(95, 100)>> >>

\* "thier" is a line of the raw dictionary source and is still corrected
C4_Witness ==
    /\ spellCall.called
    /\ spellCall.word = "thier"
    /\ dictSource.exists /\ "thier" \in dictSource.lines
    /\ spellCall.result = << <<"their", Rat(95, 100)>> >>

\* C5: for a dictionary word that is not a misspelling key, get_corrections
\* returns exactly [(word, 1.0)], whatever the context and max_suggestions.
C5_ValidWordUnchanged ==
    (/\ spellCall.called
     /\ lower(spellCall.word) \in dictionary
     /\ lower(spellCall.word) \notin DOMAIN common_misspellings)
        => spellCall.result = << <<spellCall.word, RatInt(1)>> >>

\* a valid word queried with a context and more than one suggestion allowed,
\* while another dictionary word is within edit distance 2 of it
C5_Witness ==
    /\ spellCall.called
    /\ spellCall.word = "the" /\ "their" \in dictionary
    /\ spellCall.context # <<>>
    /\ spellCall.max_suggestions > 1
    /\ spellCall.result = << <<"the", RatInt(1)>> >>

(***************************************************************************)
(* The n-gram model on its own: constructed, trained offline, queried.     *)
(***************************************************************************)
MaxOrderArg == 5
MaxTotalWords == 7
MaxQueries == 1

\* documents of a training corpus
Docs == {"", "a b a b a", "a b, c a b", "B a", "a1 b"}

TrainTexts == {<<d>> : d \in Docs} \cup {<<"B a", "a b a b a">>}

MinCounts == {1, 2}

NgWords == {"a", "B", "z"}

NgContexts ==
    {<<>>, <<"a">>, <<"b", "z">>, <<"a", "b", "a">>, <<"z", "a", "b">>,
     <<"", "A", "b">>, <<"b", "a", "b", "a">>}

Smoothings == {Rat(1, 100), RatInt(1)}

RECURSIVE TokenCount(_)
TokenCount(texts) ==
    IF texts = <<>> THEN 0 ELSE Len(_tokenize(Head(texts))) + TokenCount(Tail(texts))

NgramInit ==
    /\ \E order \in 1..MaxOrderArg : ngram = NgramModel_init(order)
    /\ ngCall = NoCall
    /\ ngQueries = 0
    /\ SpellIdle
    /\ ServiceIdle
    /\ OtherIdle

Train(texts, min_count) ==
    /\ ngram.total_words + TokenCount(texts) <= MaxTotalWords
    /\ ngram' = train(ngram, texts, min_count)
    /\ ngCall' = NoCall
    /\ UNCHANGED ngQueries
    /\ UNCHANGED spellVars
    /\ UNCHANGED serviceVars
    /\ UNCHANGED otherVars

GetProbability(word, context, smoothing) ==
    /\ ngQueries < MaxQueries
    /\ LET r == get_probability(ngram, word, context, smoothing)
       IN /\ ngram' = r.model
          /\ ngCall' = [called |-> TRUE, op |-> "get_probability", word |-> word,
                        context |-> context, smoothing |-> smoothing,
                        before |-> ngram, result |-> r.result]
    /\ ngQueries' = ngQueries + 1
    /\ UNCHANGED spellVars
    /\ UNCHANGED serviceVars
    /\ UNCHANGED otherVars

MaxTopK == 2

TopKs == 1..MaxTopK

GetNextWordPredictions(context, top_k) ==
    /\ ngQueries < MaxQueries
    /\ \E listed \in Perms(NextWordCandidates(ngram, NormalizeContext(context)).set) :
        LET r == get_next_word_predictions(ngram, context, top_k, listed)
        IN /\ ngram' = r.model
           /\ ngCall' = [called |-> TRUE, op |-> "get_next_word_predictions",
                         context |-> context, top_k |-> top_k,
                         candidates |-> listed,
                         kind |-> NextWordCandidates(ngram,
                                                     NormalizeContext(context)).kind,
                         before |-> ngram, result |-> r.result]
    /\ ngQueries' = ngQueries + 1
    /\ UNCHANGED spellVars
    /\ UNCHANGED serviceVars
    /\ UNCHANGED otherVars

CandidateLists ==
    {<<>>, <<"a">>, <<"z", "b", "a">>, <<"B", "a", "b", "c">>, <<"a", "z", "a">>}

RankCandidates(candidates, context, top_k) ==
    /\ ngQueries < MaxQueries
    /\ LET r == rank_candidates(ngram, candidates, context, top_k)
       IN /\ ngram' = r.model
          /\ ngCall' = [called |-> TRUE, op |-> "rank_candidates",
                        candidates |-> candidates, context |-> context,
                        top_k |-> top_k, before |-> ngram, result |-> r.result]
    /\ ngQueries' = ngQueries + 1
    /\ UNCHANGED spellVars
    /\ UNCHANGED serviceVars
    /\ UNCHANGED otherVars

NgramNext ==
    \/ \E texts \in TrainTexts, min_count \in MinCounts : Train(texts, min_count)
    \/ \E word \in NgWords, context \in NgContexts, smoothing \in Smoothings :
        GetProbability(word, context, smoothing)

SpecNgram == NgramInit /\ [][NgramNext]_vars

\* training followed by ranking and prediction calls
PredictNext ==
    \/ \E texts \in TrainTexts, min_count \in MinCounts : Train(texts, min_count)
    \/ \E context \in NgContexts, top_k \in TopKs :
        GetNextWordPredictions(context, top_k)
    \/ \E candidates \in CandidateLists, context \in NgContexts, top_k \in TopKs :
        RankCandidates(candidates, context, top_k)

SpecPredict == NgramInit /\ [][PredictNext]_vars

\* C6: get_probability returns, without raising, a value in (0,1], in every
\* model state reachable by construction and train calls.
C6_ProbabilityInUnitInterval ==
    (ngCall.called /\ ngCall.op = "get_probability")
        => /\ ngCall.result.ok
           /\ RatLt(RatInt(0), ngCall.result.value)
           /\ RatLe(ngCall.result.value, RatInt(1))

\* the same, whenever get_probability does return
C6_ReturnedValueInUnitInterval ==
    (ngCall.called /\ ngCall.op = "get_probability" /\ ngCall.result.ok)
        => /\ RatLt(RatInt(0), ngCall.result.value)
           /\ RatLe(ngCall.result.value, RatInt(1))

\* The backoff rule as a state machine over the order index k: the count of the
\* k-1 context tokens is read from the table of order k-1, the count of context
\* plus word from the table of order k.
TableGet(table, key) == IF key \in DOMAIN table THEN table[key] ELSE EmptyCounter

C7_ContextCount(m, k, ctx) ==
    LET n == Len(ctx)
    IN CASE k = 2 -> CounterGet(m.unigrams, ctx[n])
         [] k = 3 -> CounterGet(TableGet(m.bigrams, ctx[n - 1]), ctx[n])
         [] k = 4 -> CounterGet(TableGet(m.trigrams, <<ctx[n - 2], ctx[n - 1]>>), ctx[n])

C7_NgramCount(m, k, ctx, word) ==
    LET n == Len(ctx)
    IN CASE k = 1 -> CounterGet(m.unigrams, word)
         [] k = 2 -> CounterGet(TableGet(m.bigrams, ctx[n]), word)
         [] k = 3 -> CounterGet(TableGet(m.trigrams, <<ctx[n - 1], ctx[n]>>), word)
         [] k = 4 -> CounterGet(TableGet(m.fourgrams,
                                         <<ctx[n - 2], ctx[n - 1], ctx[n]>>), word)

C7_Quotient(count, total, m, smoothing) ==
    PyDiv(RatAdd(RatInt(count), smoothing),
          RatAdd(RatInt(total), RatMul(RatInt(Cardinality(m.vocabulary)), smoothing)))

RECURSIVE C7_Backoff(_, _, _, _, _)
C7_Backoff(m, k, word, ctx, smoothing) ==
    IF k = 1
    THEN C7_Quotient(C7_NgramCount(m, 1, ctx, word), m.total_words, m, smoothing)
    ELSE IF C7_ContextCount(m, k, ctx) > 0
    THEN C7_Quotient(C7_NgramCount(m, k, ctx, word), C7_ContextCount(m, k, ctx),
                     m, smoothing)
    ELSE C7_Backoff(m, k - 1, word, ctx, smoothing)

\* the highest order k <= model order whose k-1 context tokens are there
C7_StartOrder(m, ctx) == Min2(m.order, Len(ctx) + 1)

\* C7: on a trained model get_probability starts at the highest order that
\* fits, returns (count(context,word) + smoothing) / (count(context) +
\* vocabularySize * smoothing) at the first order whose count(context) > 0, also
\* when count(context,word) = 0, backs off one order only when count(context) = 0
\* and at order 1 uses the unigram formula over total_words.
C7_BackoffOnContextCount ==
    (ngCall.called /\ ngCall.op = "get_probability" /\ ngCall.before.trained)
        => ngCall.result =
            C7_Backoff(ngCall.before,
                       C7_StartOrder(ngCall.before, NormalizeContext(ngCall.context)),
                       lower(ngCall.word), NormalizeContext(ngCall.context),
                       ngCall.smoothing)

\* a seen context with an unseen continuation at order 2 or higher: no backoff
C7_Witness ==
    /\ ngCall.called /\ ngCall.op = "get_probability" /\ ngCall.before.trained
    /\ LET ctx == NormalizeContext(ngCall.context)
           k == C7_StartOrder(ngCall.before, ctx)
       IN /\ k >= 2
          /\ C7_ContextCount(ngCall.before, k, ctx) > 0
          /\ C7_NgramCount(ngCall.before, k, ctx, lower(ngCall.word)) = 0
          /\ ngCall.result.ok

(***************************************************************************)
(* The correction service: requests are served one at a time (the handlers *)
(* never yield inside a request); a request that reaches the neural        *)
(* corrector waits in its call until the call returns or raises, and a     *)
(* call that never returns leaves it there. A served request is forgotten  *)
(* when its response has been delivered.                                   *)
(***************************************************************************)
MaxRequests == 2

NotCalled == [called |-> FALSE]

CorrectionRequest(text, context, mode, max_suggestions, use_neural, use_cache) ==
    [text |-> text, context |-> context, mode |-> mode,
     max_suggestions |-> max_suggestions, use_neural |-> use_neural,
     use_cache |-> use_cache]

AutoTexts == {"I recieve the package", "NASA", "a", "", "thier", "the NASA", "The"}
SuggestionTexts == {"pakage", "the package"}
GrammarTexts == {"I recieve the package"}
CachedTexts == {"thier", "Thier "}
ServiceContexts == {<<>>, <<"the">>}

Requests ==
    {CorrectionRequest(t, <<>>, "auto", 1, n, FALSE) :
        t \in AutoTexts, n \in BOOLEAN}
    \cup {CorrectionRequest(t, c, "suggestions", k, TRUE, FALSE) :
        t \in SuggestionTexts, c \in ServiceContexts, k \in 1..MaxSug}
    \cup {CorrectionRequest(t, <<>>, "grammar", 1, TRUE, FALSE) : t \in GrammarTexts}
    \cup {CorrectionRequest(t, <<>>, m, 1, FALSE, TRUE) :
        t \in CachedTexts, m \in {"auto", "suggestions"}}
    \cup {CorrectionRequest("thier", <<>>, "grammar", 1, TRUE, TRUE)}

NeuralConfidences == {Rat(1, 2), Rat(95, 100), RatInt(1)}
NeuralError == "NeuralError"

\* what a call of the neural corrector on input may return or raise
GrammarOutcomes(input) ==
    {Returned(<<t, c>>) : t \in {input, "I receive the package."},
                          c \in NeuralConfidences}
    \cup {Raised(NeuralError)}

AlternativesOutcomes(input) ==
    {Returned(<<>>),
     Returned(<<<<input, RatInt(1)>>>>),
     Returned(<<<<"the package", Rat(9, 10)>>, <<"package", Rat(1, 2)>>>>),
     Raised(NeuralError)}

\* the argument of the neural call the request is waiting in
NeuralInput(req) ==
    IF req.mode = "grammar" \/ req.mode = "suggestions"
    THEN strip(req.text)
    ELSE SpellPass(strip(req.text), req.context).spell_corrected_text

NeuralOutcomes(req) ==
    IF req.mode = "suggestions"
    THEN AlternativesOutcomes(NeuralInput(req))
    ELSE GrammarOutcomes(NeuralInput(req))

\* the time to live given to the cache, and how long the clock is followed
Ttls == {1, 2}
MaxTime == 2

ServiceNgrams ==
    {NgramModel_init(4),
     train(NgramModel_init(4), <<"the package the package">>, 1),
     train(NgramModel_init(4), <<"">>, 1)}

ServiceInit ==
    /\ SpellIdle
    /\ ngram \in ServiceNgrams
    /\ ngCall = NoCall
    /\ ngQueries = 0
    /\ service = CorrectionService_init
    /\ cache \in {CorrectionCache_init(b, ttl) : b \in {"disk", "none"}, ttl \in Ttls}
    /\ pc = "idle"
    /\ request = None
    /\ neuralCall = None
    /\ response = None
    /\ OtherIdle

\* the state when correct_text has returned or raised
Finished(done) ==
    /\ ngram' = done.model
    /\ service' = done.service
    /\ cache' = done.cache
    /\ response' = done.result
    /\ pc' = "done"

\* correct_text after initialize() and the cache lookup: a hit is answered from
\* the cache; otherwise the strategy runs, up to its call of the neural
\* corrector if it makes one
Dispatch(svc, req, looked) ==
    IF looked.result # None
    THEN /\ response' = Returned(CachedResponse(strip(req.text), looked.result))
         /\ cache' = looked.cache
         /\ service' = svc
         /\ neuralCall' = NotCalled
         /\ pc' = "done"
         /\ UNCHANGED ngram
    ELSE IF CallsNeural(svc, req)
    THEN /\ pc' = "neural"
         /\ service' = svc
         /\ cache' = looked.cache
         /\ neuralCall' = None
         /\ response' = None
         /\ UNCHANGED ngram
    ELSE /\ neuralCall' = NotCalled
         /\ Finished(Strategy(svc, looked.cache, ngram, req, NotCalled, now))

\* correct_text is called
BeginRequest(req, neural_loads) ==
    /\ pc = "idle"
    /\ service.total_requests < MaxRequests
    /\ cache.total_requests < MaxRequests
    /\ request' = req
    /\ Dispatch(IF service.initialized THEN service
                ELSE initialize(service, neural_loads),
                req, CacheLookup(cache, req, now))
    /\ UNCHANGED <<ngCall, ngQueries>>
    /\ UNCHANGED spellVars
    /\ UNCHANGED otherVars

\* the neural corrector's call returns or raises
NeuralReturns(outcome) ==
    /\ pc = "neural"
    /\ neuralCall' = [called |-> TRUE, outcome |-> outcome]
    /\ Finished(Strategy(service, cache, ngram, request, outcome, now))
    /\ UNCHANGED <<request, ngCall, ngQueries>>
    /\ UNCHANGED spellVars
    /\ UNCHANGED otherVars

\* the neural corrector's call never returns
NeuralHangs ==
    /\ pc = "neural"
    /\ pc' = "hung"
    /\ UNCHANGED <<service, cache, request, neuralCall, response>>
    /\ UNCHANGED ngramVars
    /\ UNCHANGED spellVars
    /\ UNCHANGED otherVars

\* the response (or the exception) is delivered to the caller
Deliver ==
    /\ pc = "done"
    /\ pc' = "idle"
    /\ request' = None
    /\ neuralCall' = None
    /\ response' = None
    /\ UNCHANGED <<service, cache>>
    /\ UNCHANGED ngramVars
    /\ UNCHANGED spellVars
    /\ UNCHANGED otherVars

\* time passes
Tick ==
    /\ now < MaxTime
    /\ now' = now + 1
    /\ UNCHANGED <<cacheCall, cacheSets, ngFile, levCall>>
    /\ UNCHANGED serviceVars
    /\ UNCHANGED ngramVars
    /\ UNCHANGED spellVars

ServiceNext ==
    \/ \E req \in Requests, neural_loads \in BOOLEAN : BeginRequest(req, neural_loads)
    \/ pc = "neural" /\ \E outcome \in NeuralOutcomes(request) : NeuralReturns(outcome)
    \/ NeuralHangs
    \/ Deliver
    \/ Tick

SpecService == ServiceInit /\ [][ServiceNext]_vars

(***************************************************************************)
(* The n-gram model and its snapshot file: models are constructed,         *)
(* trained, queried, saved and loaded, and the file is damaged or removed  *)
(* from outside. ngFile.damage names what was done to the file last, and   *)
(* ngFile.saved the model whose save wrote it.                             *)
(***************************************************************************)
PersistOrders == {2, 5}

PersistTexts == {<<"a b a b a">>, <<"">>}

PersistWords == {"a", "z"}

PersistContexts == {<<>>, <<"a">>, <<"z", "a">>}

PersistInit ==
    /\ ngram \in {NgramModel_init(order) : order \in PersistOrders}
    /\ ngCall = NoCall
    /\ ngQueries = 0
    /\ now = 0
    /\ cacheCall = NoCall
    /\ cacheSets = <<>>
    /\ ngFile = NoFile
    /\ levCall = NoCall
    /\ SpellIdle
    /\ ServiceIdle

\* a process starts with a model of its own
Construct(order) ==
    /\ ngram' = NgramModel_init(order)
    /\ ngCall' = NoCall
    /\ UNCHANGED ngQueries
    /\ UNCHANGED spellVars
    /\ UNCHANGED serviceVars
    /\ UNCHANGED otherVars

Save ==
    /\ ngFile' = [exists |-> TRUE, kind |-> save(ngram).kind, obj |-> save(ngram).obj,
                  damage |-> "none", saved |-> ngram]
    /\ ngCall' = [called |-> TRUE, op |-> "save", before |-> ngram]
    /\ UNCHANGED <<ngram, ngQueries>>
    /\ UNCHANGED <<now, cacheCall, cacheSets, levCall>>
    /\ UNCHANGED spellVars
    /\ UNCHANGED serviceVars

Load ==
    /\ ngram' = load(ngram, ngFile).model
    /\ ngCall' = [called |-> TRUE, op |-> "load", before |-> ngram, file |-> ngFile,
                  result |-> load(ngram, ngFile).result,
                  after |-> load(ngram, ngFile).model]
    /\ UNCHANGED ngQueries
    /\ UNCHANGED spellVars
    /\ UNCHANGED serviceVars
    /\ UNCHANGED otherVars

\* a dict cut off before "order", after "unigrams" and before "trained"
TruncationPoints == {0, 2, Len(SnapshotKeys) - 1}

\* the first n keys of a dict
FirstKeys(items, n) == [k \in {SnapshotKeys[i] : i \in 1..n} |-> items[k]]

\* the file after it was removed, overwritten or edited
DamagedFiles(file) ==
    {NoFile,
     [exists |-> TRUE, kind |-> "bytes", damage |-> "bytes"],
     [exists |-> TRUE, kind |-> "pickle", obj |-> [type |-> "list"],
      damage |-> "not_dict"]}
    \cup IF file.exists /\ file.kind = "pickle" /\ file.obj.type = "dict"
            /\ file.damage = "none"
         THEN {[file EXCEPT !.obj.items = FirstKeys(@, n), !.damage = "truncated"] :
                    n \in TruncationPoints}
              \cup {[file EXCEPT !.obj.items.vocabulary = None,
                                 !.damage = "ill_typed"]}
         ELSE {}

Damage(file) ==
    /\ ngFile' = file
    /\ UNCHANGED <<now, cacheCall, cacheSets, levCall>>
    /\ UNCHANGED ngramVars
    /\ UNCHANGED spellVars
    /\ UNCHANGED serviceVars

\* the model holds, after the load of a snapshot with a value of another type,
\* a value on which every method raises TypeError
IllTyped ==
    /\ ngCall.called /\ ngCall.op = "load"
    /\ ngCall.file.exists /\ ngCall.file.damage = "ill_typed"
    /\ ngCall.result.value

\* the last call on the model since it was constructed or trained
LastOp == IF ngCall.called THEN ngCall.op ELSE "none"

Unused == LastOp = "none"

\* A process constructs its model and then trains it or loads the snapshot, as
\* train_ngram and get_ngram_model do; it saves a model that was not loaded;
\* the file changes between the calls of a process, not after its load.
PersistNext ==
    \/ \E order \in PersistOrders : Construct(order)
    \/ Unused /\ \E texts \in PersistTexts : Train(texts, 1)
    \/ ~IllTyped /\ \E word \in PersistWords, context \in PersistContexts,
                       smoothing \in Smoothings :
        GetProbability(word, context, smoothing)
    \/ LastOp \in {"none", "get_probability"} /\ Save
    \/ Unused /\ Load
    \/ LastOp \in {"none", "save"} /\ \E file \in DamagedFiles(ngFile) : Damage(file)

SpecPersist == PersistInit /\ [][PersistNext]_vars

(***************************************************************************)
(* levenshtein_distance on its own: the distances between three strings.   *)
(***************************************************************************)
MaxLen == 3

Alphabet == {"a", "b"}

\* the strings over the alphabet of at most n characters
RECURSIVE Strings(_)
Strings(n) ==
    IF n = 0 THEN {""}
    ELSE Strings(n - 1) \cup {s \o ch : s \in Strings(n - 1), ch \in Alphabet}

LevInit ==
    /\ levCall = NoCall
    /\ now = 0
    /\ cacheCall = NoCall
    /\ cacheSets = <<>>
    /\ ngFile = NoFile
    /\ SpellIdle
    /\ NgramIdle
    /\ ServiceIdle

\* one measurement of three strings in a behaviour
LevenshteinDistances(a, b, c) ==
    /\ ~levCall.called
    /\ levCall' = [called |-> TRUE, a |-> a, b |-> b, c |-> c,
                   aa |-> levenshtein_distance(a, a),
                   ab |-> levenshtein_distance(a, b),
                   ba |-> levenshtein_distance(b, a),
                   bc |-> levenshtein_distance(b, c),
                   ac |-> levenshtein_distance(a, c)]
    /\ UNCHANGED <<now, cacheCall, cacheSets, ngFile>>
    /\ UNCHANGED spellVars
    /\ UNCHANGED ngramVars
    /\ UNCHANGED serviceVars

LevNext == \E a, b, c \in Strings(MaxLen) : LevenshteinDistances(a, b, c)

SpecLev == LevInit /\ [][LevNext]_vars

(***************************************************************************)
(* The cache on its own: set, get and clear calls while time passes.       *)
(* cacheSets keeps, for the arguments of a set, the correction and the     *)
(* time of the call, until a clear or a later set to the same entry.       *)
(***************************************************************************)
MaxGets == 2

CacheArgs ==
    {<<"thier", <<>>>>, <<"Thier ", <<>>>>,
     <<"at 10:30", <<"pm">>>>, <<"at 10", <<"30:pm">>>>}

Corrections == {<<"their", RatInt(1)>>, <<"", RatInt(0)>>}

ModelTypes == {"combined"}

CacheInit ==
    /\ cache \in {CorrectionCache_init(b, ttl) :
                    b \in {"disk", "redis", "none"}, ttl \in Ttls}
    /\ service = CorrectionService_init
    /\ pc = "idle"
    /\ request = None
    /\ neuralCall = None
    /\ response = None
    /\ SpellIdle
    /\ NgramIdle
    /\ OtherIdle

\* the sets a later set with these arguments leaves standing
Standing(sets, text, context, model_type) ==
    [a \in {b \in DOMAIN sets :
              _generate_key(b[1], b[2], b[3]) # _generate_key(text, context, model_type)}
        |-> sets[a]]

CacheSet(text, correction, context, model_type) ==
    /\ cache' = cache_set(cache, text, correction, context, model_type, now)
    /\ cacheSets' = IF cache.backend = "none" THEN cacheSets
                    ELSE (<<text, context, model_type>> :>
                            [correction |-> correction, at |-> now])
                         @@ Standing(cacheSets, text, context, model_type)
    /\ cacheCall' = [called |-> TRUE, op |-> "set", at |-> now]
    /\ UNCHANGED <<now, ngFile, levCall>>
    /\ UNCHANGED <<service, pc, request, neuralCall, response>>
    /\ UNCHANGED ngramVars
    /\ UNCHANGED spellVars

CacheGet(text, context, model_type) ==
    /\ cache.total_requests < MaxGets
    /\ cache' = cache_get(cache, text, context, model_type, now).cache
    /\ cacheCall' = [called |-> TRUE, op |-> "get", at |-> now,
                     args |-> <<text, context, model_type>>, sets |-> cacheSets,
                     result |-> cache_get(cache, text, context, model_type, now).result]
    /\ UNCHANGED <<now, cacheSets, ngFile, levCall>>
    /\ UNCHANGED <<service, pc, request, neuralCall, response>>
    /\ UNCHANGED ngramVars
    /\ UNCHANGED spellVars

CacheClear ==
    /\ cache' = cache_clear(cache)
    /\ cacheSets' = <<>>
    /\ cacheCall' = [called |-> TRUE, op |-> "clear", at |-> now]
    /\ UNCHANGED <<now, ngFile, levCall>>
    /\ UNCHANGED <<service, pc, request, neuralCall, response>>
    /\ UNCHANGED ngramVars
    /\ UNCHANGED spellVars

CacheNext ==
    \/ \E a \in CacheArgs, correction \in Corrections, model_type \in ModelTypes :
        CacheSet(a[1], correction, a[2], model_type)
    \/ \E a \in CacheArgs, model_type \in ModelTypes : CacheGet(a[1], a[2], model_type)
    \/ CacheClear
    \/ Tick

SpecCache == CacheInit /\ [][CacheNext]_vars

\* correct_text has returned a response for the request
Answered == pc = "done" /\ response.ok

\* the neural corrector was called for the request and raised
NeuralRaised ==
    /\ pc = "done"
    /\ neuralCall # None /\ neuralCall # NotCalled
    /\ ~neuralCall.outcome.ok

(* C1: in every mode of correct_text, no response has a corrected text that     *)
(* differs from its original together with a confidence below the threshold.   *)
C1_GatedInEveryMode ==
    Answered =>
        ~(/\ response.value.corrected # response.value.original
          /\ RatLt(response.value.confidence, MIN_CONFIDENCE_THRESHOLD))

(* C2: in auto mode with the neural step disabled and the shipped threshold,   *)
(* "I recieve the package" is corrected to "I receive the package".            *)
C2_RecieveIsCorrected ==
    (/\ pc = "done"
     /\ request.mode = "auto" /\ ~request.use_neural
     /\ request.text = "I recieve the package")
    => /\ response.ok
       /\ response.value.corrected = "I receive the package"

(* C3: an auto-mode input made only of pass-through tokens ("NASA", a token of *)
(* one character) returns normally with the input unchanged.                   *)
C3_PassThroughOnlyInput ==
    (/\ pc = "done"
     /\ request.mode = "auto"
     /\ request.text \in {"NASA", "a"})
    => /\ response.ok
       /\ response.value.corrected = request.text
       /\ ~response.value.changes_made

C9_DeadlineFallsBack ==
    (pc = "hung" /\ request.mode = "auto") => ENABLED ServiceNext

\* what the neural corrector gave the request, if it was called
NeuralGave == IF neuralCall = NotCalled THEN NotCalled ELSE neuralCall.outcome

\* every suggestion of the pool blended with its n-gram probability
AllBlended(pool, context) ==
    [i \in 1..Len(pool) |->
        Blend(pool[i], get_probability(ngram, pool[i].text, context,
                                       DefaultSmoothing).result.value)]

\* the suggestions of a response whose pool is what the claim makes of it
SuggestionsOf(pool, max_suggestions) ==
    IF pool = <<>> THEN <<Suggestion(strip(request.text), RatInt(1), "original")>>
    ELSE Take(SortByConfidence(pool), max_suggestions)

(* C10: in suggestions mode, when the n-gram model is trained and the context  *)
(* is non-empty, every candidate of the pool has its confidence recomputed as  *)
(* 0.7 * confidence + 0.3 * n-gram probability and "+ngram" appended to its    *)
(* source before the pool is sorted and truncated; otherwise no candidate is   *)
(* changed.                                                                    *)
C10_EveryCandidateBlended ==
    (Answered /\ request.mode = "suggestions" /\ ~response.value.cached)
    => response.value.suggestions =
        SuggestionsOf(
            IF ngram.trained /\ request.context # <<>>
            THEN AllBlended(SuggestionPool(strip(request.text), request.context,
                                request.max_suggestions, service.neural_corrector,
                                NeuralGave),
                            request.context)
            ELSE SuggestionPool(strip(request.text), request.context,
                                request.max_suggestions, service.neural_corrector,
                                NeuralGave),
            request.max_suggestions)

(* C11: the n-gram model is immutable during serving: a query leaves order,    *)
(* the four tables with their sets of context keys, the vocabulary,            *)
(* total_words and trained as they were.                                       *)
C11_QueriesLeaveModelUnchanged ==
    ngCall.called => ngram = ngCall.before

\* the texts held in the values of the cache backend
StoredTexts(c) ==
    {IF c.backend = "redis" THEN json_loads(c.store[k].data)[1] ELSE c.store[k].data[1] :
        k \in DOMAIN c.store}

(* C12: no request text is stored beyond the request: once correct_text has    *)
(* returned, no value of the cache is the text that was submitted.             *)
C12_NoRequestTextStored ==
    pc = "done" =>
        /\ request.text \notin StoredTexts(cache)
        /\ strip(request.text) \notin StoredTexts(cache)

\* the tokens the predictions are to be drawn from: every next token of the
\* orders that fit, or else the most frequent unigram tokens
C13_ExpectedTokens(m, ctx) ==
    IF ContextCandidates(m, ctx) # {} THEN ContextCandidates(m, ctx)
    ELSE {item[1] : item \in most_common(m.unigrams, MostCommonCount)}

\* C13: get_next_word_predictions returns, on trained and untrained models, at
\* most top_k (token, probability) pairs: the rank_candidates ranking of the
\* next tokens of every order that fits, or of the most frequent unigram tokens
\* when there are none.
C13_PredictionsRankTokens ==
    (ngCall.called /\ ngCall.op = "get_next_word_predictions")
        => /\ ngCall.result.ok
           /\ Len(ngCall.result.value) <= ngCall.top_k
           /\ ngCall.kind = "tokens" \/ ngCall.candidates = <<>>
           /\ \E listed \in Perms(C13_ExpectedTokens(ngCall.before,
                                      NormalizeContext(ngCall.context))) :
                ngCall.result = rank_candidates(ngCall.before, listed,
                                                ngCall.context, ngCall.top_k).result

\* get_probability of candidates[i] with the default smoothing
C18_Probability(m, candidates, context, i) ==
    get_probability(m, candidates[i], context, DefaultSmoothing).result.value

\* ranked pairs the candidates at the positions pos, each with its probability,
\* in non-increasing order and, among equal probabilities, in input order
C18_RankedBy(ranked, pos, m, candidates, context) ==
    /\ \A j \in DOMAIN pos :
        ranked[j] = <<candidates[pos[j]], C18_Probability(m, candidates, context, pos[j])>>
    /\ \A j, k \in DOMAIN pos :
        j < k => /\ pos[j] # pos[k]
                 /\ RatLe(ranked[k][2], ranked[j][2])
                 /\ ranked[j][2] = ranked[k][2] => pos[j] < pos[k]

C18_Ranking(call) ==
    /\ call.result.ok
    /\ Len(call.result.value) = Min2(Len(call.candidates), call.top_k)
    /\ \E pos \in [1..Len(call.result.value) -> 1..Len(call.candidates)] :
        C18_RankedBy(call.result.value, pos, call.before, call.candidates, call.context)
    /\ call.result = rank_candidates(call.before, call.candidates, call.context,
                                     call.top_k).result

\* C18: rank_candidates returns min(len(candidates), top_k) pairs, each a
\* candidate with its get_probability, a permutation of a sub-list of the input
\* in non-increasing probability with equal probabilities in input order, and
\* the same result for the same model, candidates and context.
C18_RankingOfCandidates ==
    (ngCall.called /\ ngCall.op = "rank_candidates") => C18_Ranking(ngCall)

\* the same, whenever rank_candidates does return
C18_RankingWhenReturned ==
    (ngCall.called /\ ngCall.op = "rank_candidates" /\ ngCall.result.ok)
        => C18_Ranking(ngCall)

\* the spell pass of the request ended without a text of its own: the fault of
\* the token loop that inputs can provoke
C14_SpellPassFaulted ==
    /\ strip(request.text) # ""
    /\ ~SpellPass(strip(request.text), request.context).bound

(* C14: in auto mode a fault while spell-checking or scoring a token does not  *)
(* abort the request: correct_text answers, and the tokens the fault concerns  *)
(* pass through unmodified.                                                    *)
C14_TokenFaultIsolated ==
    (pc = "done" /\ request.mode = "auto")
        => /\ response.ok
           /\ C14_SpellPassFaulted
                => response.value.corrected = strip(request.text)

\* a get with the arguments of a set that still stands
C15_GetAfterSet ==
    /\ cacheCall.called /\ cacheCall.op = "get"
    /\ cache.backend # "none"
    /\ cacheCall.args \in DOMAIN cacheCall.sets

(* C15: with a working backend, a get with the arguments of a set, with no     *)
(* clear and no later set to the same entry in between, returns the correction *)
(* of the set at every time before the time to live is over, and None from     *)
(* then on.                                                                    *)
C15_RoundTripUntilExpiry ==
    C15_GetAfterSet =>
        IF cacheCall.at < cacheCall.sets[cacheCall.args].at + cache.ttl
        THEN cacheCall.sets[cacheCall.args].correction = cacheCall.result
        ELSE cacheCall.result = None

\* a hit after time has passed since the set
C15_Witness ==
    /\ C15_GetAfterSet
    /\ cacheCall.at > cacheCall.sets[cacheCall.args].at
    /\ cacheCall.sets[cacheCall.args].correction = cacheCall.result

\* a miss on an entry whose time to live is over
C15_WitnessExpired ==
    /\ C15_GetAfterSet
    /\ cacheCall.at >= cacheCall.sets[cacheCall.args].at + cache.ttl
    /\ cacheCall.result = None

\* a model as the constructor leaves it
Fresh(m) == m = NgramModel_init(m.order)

\* get_probability gives the same on both models, for the queries of the bounds
SameProbabilities(m1, m2) ==
    \A word \in PersistWords, context \in PersistContexts, smoothing \in Smoothings :
        get_probability(m1, word, context, smoothing).result
            = get_probability(m2, word, context, smoothing).result

\* load was called on a fresh model with the file as save wrote it
C16_LoadedSavedFile ==
    /\ ngCall.called /\ ngCall.op = "load"
    /\ ngCall.file.exists /\ ngCall.file.damage = "none"
    /\ Fresh(ngCall.before)

(* C16: save followed by load into a fresh model gives the model that was      *)
(* saved: the same order, the same four tables with every context key, the     *)
(* same vocabulary, total_words and trained flag, hence the same               *)
(* get_probability for every query.                                            *)
C16_SaveLoadRoundTrip ==
    C16_LoadedSavedFile =>
        /\ ngCall.result = Returned(TRUE)
        /\ ngCall.after = ngCall.file.saved
        /\ SameProbabilities(ngCall.after, ngCall.file.saved)

\* a trained model of another order, with counts and with a context key that a
\* query left behind with no count, came back from the file
C16_Witness ==
    /\ C16_LoadedSavedFile
    /\ ngCall.after = ngCall.file.saved
    /\ ngCall.file.saved.trained
    /\ ngCall.file.saved.order # ngCall.before.order
    /\ ngCall.file.saved.unigrams # EmptyCounter
    /\ \E k \in DOMAIN ngCall.file.saved.bigrams :
        ngCall.file.saved.bigrams[k] = EmptyCounter

\* load was called with no file, or with a file that something damaged
C17_LoadedDamagedFile ==
    /\ ngCall.called /\ ngCall.op = "load"
    /\ ~ngCall.file.exists \/ ngCall.file.damage # "none"

\* load said no, and a model that was untrained is untrained and gives the
\* smoothing constant
C17_FailedGracefully ==
    /\ ngCall.result = Returned(FALSE)
    /\ ~ngCall.before.trained =>
        /\ ~ngCall.after.trained
        /\ \A word \in PersistWords, context \in PersistContexts,
              smoothing \in Smoothings :
            get_probability(ngCall.after, word, context, smoothing).result
                = Returned(smoothing)

(* C17: load of a missing, corrupt or malformed snapshot does not raise and    *)
(* returns False, and a model that was untrained before stays untrained and    *)
(* keeps returning the smoothing constant.                                     *)
C17_DamagedLoadFails == C17_LoadedDamagedFile => C17_FailedGracefully

\* the same for a file that is missing, is no pickle, holds no dict or holds a
\* dict that lacks keys
C17_UnreadableLoadFails ==
    (C17_LoadedDamagedFile
     /\ (ngCall.file.exists => ngCall.file.damage # "ill_typed"))
        => C17_FailedGracefully

(* C20: an untrained model returns exactly the smoothing constant passed to    *)
(* get_probability, for every word and context, whatever its order and its     *)
(* tables hold.                                                                *)
C20_UntrainedGivesSmoothing ==
    (ngCall.called /\ ngCall.op = "get_probability" /\ ~ngCall.before.trained)
        => ngCall.result = Returned(ngCall.smoothing)

\* an untrained model with counts in its tables, as a cut-off snapshot leaves
\* it, was asked with a context
C20_Witness ==
    /\ ngCall.called /\ ngCall.op = "get_probability" /\ ~ngCall.before.trained
    /\ ngCall.before.unigrams # EmptyCounter
    /\ ngCall.before.total_words > 0
    /\ ngCall.context # <<>>
    /\ ngCall.result = Returned(ngCall.smoothing)

(* C19: levenshtein_distance is a metric on the strings of the bounds: the     *)
(* distance of a string to itself is 0, the distance is the same in both       *)
(* directions, and the distance from a to c is at most the distance from a to  *)
(* b plus the distance from b to c.                                            *)
C19_LevenshteinIsMetric ==
    levCall.called =>
        /\ levCall.aa = 0
        /\ levCall.ab = levCall.ba
        /\ levCall.ac <= levCall.ab + levCall.bc

\* three different strings of different lengths, the middle one on a shortest
\* way from the first to the third
C19_Witness ==
    /\ levCall.called
    /\ levCall.a # levCall.b /\ levCall.b # levCall.c /\ levCall.a # levCall.c
    /\ Len(levCall.a) < Len(levCall.b) /\ Len(levCall.c) < Len(levCall.b)
    /\ levCall.ab > 0 /\ levCall.bc > 0
    /\ levCall.ac = levCall.ab + levCall.bc

InUnitInterval(x) == RatLe(RatInt(0), x) /\ RatLe(x, RatInt(1))

\* every confidence get_corrections gives for the words of the bounds, looked at
\* before the first request (the spell checker does not change afterwards)
C21_SpellConfidences ==
    \A word \in SpellWords, context \in SpellContexts, n \in 1..MaxSug :
        \A i \in DOMAIN get_corrections(word, context, n) :
            InUnitInterval(get_corrections(word, context, n)[i][2])

(* C21: with neural confidences in [0,1], the confidence of every response of  *)
(* correct_text and of each of its suggestions is in [0,1], in the three modes *)
(* and on cache hits, and so is every confidence get_corrections returns.      *)
C21_ConfidenceInUnitInterval ==
    /\ ~service.initialized => C21_SpellConfidences
    /\ Answered =>
        /\ InUnitInterval(response.value.confidence)
        /\ \A i \in DOMAIN response.value.suggestions :
            InUnitInterval(response.value.suggestions[i].confidence)

\* a response whose first suggestion was blended with an n-gram probability
C21_Witness ==
    /\ Answered
    /\ response.value.suggestions # <<>>
    /\ response.value.suggestions[1].source \in {"spell+ngram", "neural+ngram"}
    /\ InUnitInterval(response.value.confidence)

\* the same for every call of get_corrections on the spell checkers of SpecSpell
C21_SpellCallConfidences ==
    spellCall.called =>
        \A i \in DOMAIN spellCall.result : InUnitInterval(spellCall.result[i][2])

\* a grammar request was answered by a service whose neural corrector is not
\* loaded
C22_GrammarWithoutNeural ==
    /\ Answered
    /\ request.mode = "grammar"
    /\ service.neural_corrector = "None"

\* the response of the unavailable branch of _correct_grammar
C22_Unavailable ==
    /\ response.value.original = strip(request.text)
    /\ response.value.corrected = strip(request.text)
    /\ response.value.confidence = RatInt(0)
    /\ ~response.value.changes_made
    /\ Len(response.value.suggestions) = 1
    /\ response.value.suggestions[1].source = "none"
    /\ response.value.suggestions[1].text = strip(request.text)
    /\ response.value.suggestions[1].confidence = RatInt(0)

(* C22 as stated: in grammar mode with the neural corrector not loaded,        *)
(* correct_text returns the original text as corrected, confidence 0,          *)
(* changes_made false and a single suggestion with source "none".              *)
C22_UnavailableReturnsOriginal == C22_GrammarWithoutNeural => C22_Unavailable

(* C22: the same for every response that is not served from the cache.        *)
C22_UnavailableReturnsOriginalOnMiss ==
    (C22_GrammarWithoutNeural /\ ~response.value.cached) => C22_Unavailable

\* the unavailable branch answered a request that asked for the cache
C22_Witness ==
    /\ C22_GrammarWithoutNeural
    /\ ~response.value.cached
    /\ request.use_cache
    /\ C22_Unavailable

\* a token the first pass of _auto_correct appends without asking the spell
\* checker
PassThrough(word) ==
    \/ Len(word) < 2
    \/ ~AnyAlpha(word)
    \/ isupper(word)

\* out holds every pass-through token of words unchanged, at its position
\* relative to what the other tokens were turned into (one token or more each)
RECURSIVE KeepsPassThrough(_, _)
KeepsPassThrough(words, out) ==
    IF words = <<>> THEN out = <<>>
    ELSE IF PassThrough(Head(words))
    THEN /\ out # <<>>
         /\ Head(out) = Head(words)
         /\ KeepsPassThrough(Tail(words), Tail(out))
    ELSE \E k \in 1..Len(out) :
            KeepsPassThrough(Tail(words), SubSeq(out, k + 1, Len(out)))

\* correct_text ran the first pass of _auto_correct for the request and the
\* pass produced a spell-corrected text
C23_SpellPassRan ==
    /\ pc = "done"
    /\ request.mode = "auto"
    /\ strip(request.text) # ""
    /\ response.ok => ~response.value.cached
    /\ SpellPass(strip(request.text), request.context).bound

(* C23: in auto mode every pass-through token (shorter than 2 characters,      *)
(* without an alphabetic character, or fully uppercase) appears unchanged in   *)
(* the spell-corrected text at its original position relative to the other     *)
(* tokens, pass-through tokens after the last spell-checked token included.    *)
C23_PassThroughKept ==
    C23_SpellPassRan =>
        KeepsPassThrough(split(strip(request.text)),
            split(SpellPass(strip(request.text), request.context).spell_corrected_text))

\* the same for texts that end with a spell-checked token
C23_PassThroughKeptBeforeLastChecked ==
    (/\ C23_SpellPassRan
     /\ ~PassThrough(split(strip(request.text))[Len(split(strip(request.text)))]))
    => KeepsPassThrough(split(strip(request.text)),
            split(SpellPass(strip(request.text), request.context).spell_corrected_text))

\* the first pass of _auto_correct for the request in hand
RequestPass == SpellPass(strip(request.text), request.context)

\* the top suggestion of the spell checker for a token differs from the token
\* when letter case is ignored
DiffersIgnoringCase(word, context) ==
    LET spell_suggestions == get_corrections(word, context, 1)
    IN /\ spell_suggestions # <<>>
       /\ lower(spell_suggestions[1][1]) # lower(word)

\* some spell-checked token of the text has such a suggestion
SomeTokenDiffers(text, context) ==
    \E i \in DOMAIN split(text) :
        /\ ~PassThrough(split(text)[i])
        /\ DiffersIgnoringCase(split(text)[i], context)

\* _auto_correct answered the request from its first pass alone
C24_SpellLevelAnswer ==
    /\ C23_SpellPassRan
    /\ response.ok
    /\ ~AutoCallsNeural(strip(request.text), request.context, request,
                        service.neural_corrector)
    /\ response.value.suggestions[1].source = "spell"

(* C24: in auto mode a spell suggestion is accepted only if it differs from    *)
(* the token when letter case is ignored; when the neural corrector is not     *)
(* invoked the spell-level confidence is 0.9 exactly when some token was       *)
(* changed and 1.0 otherwise, so valid dictionary words in any letter case     *)
(* give the identical text with confidence 1.0.                                *)
C24_AcceptedOnlyIfDifferent ==
    /\ C23_SpellPassRan =>
        (RequestPass.any_corrections
            <=> SomeTokenDiffers(strip(request.text), request.context))
    /\ C24_SpellLevelAnswer =>
        response.value.confidence =
            IF SomeTokenDiffers(strip(request.text), request.context)
            THEN Rat(9, 10) ELSE RatInt(1)

\* the same for texts whose spell-checked tokens are in lower case
C24_AcceptedLowerCase ==
    (/\ C23_SpellPassRan
     /\ \A i \in DOMAIN split(strip(request.text)) :
            \/ PassThrough(split(strip(request.text))[i])
            \/ split(strip(request.text))[i] = lower(split(strip(request.text))[i]))
    => C24_AcceptedOnlyIfDifferent

\* the request in hand with the neural corrector disabled
WithoutNeural == [request EXCEPT !.use_neural = FALSE]

\* _auto_correct called correct_grammar for the request and the call raised
C25_GrammarRaised ==
    /\ C23_SpellPassRan
    /\ NeuralRaised

\* what _auto_correct holds before gating for the request in hand
C25_Result ==
    BeforeGating(strip(request.text), request, service.neural_corrector,
                 neuralCall.outcome, RequestPass)

\* what it holds for the same request with the neural corrector disabled
C25_SpellLevel ==
    BeforeGating(strip(request.text), WithoutNeural, service.neural_corrector,
                 neuralCall.outcome, RequestPass)

(* C25: in auto mode, when correct_grammar raises, the result before gating is *)
(* exactly the spell-level result the same request produces with the neural    *)
(* corrector disabled: same text, same confidence (0.9 if any word changed,    *)
(* else 1.0) and a single "spell" suggestion.                                  *)
C25_FaultGivesSpellLevelResult == C25_GrammarRaised => C25_Result = C25_SpellLevel

\* the part of it that is about the text and the source
C25_FaultGivesSpellLevelText ==
    C25_GrammarRaised =>
        /\ C25_Result.final_text = C25_SpellLevel.final_text
        /\ Len(C25_Result.suggestions) = 1
        /\ C25_Result.suggestions[1].source = "spell"
        /\ C25_Result.suggestions[1].text = C25_SpellLevel.final_text

\* what the key is made from: the lowercased-trimmed text, the pipe-joined
\* context and the tag
KeyTriple(args) == <<strip(lower(args[1])), join("|", args[2]), args[3]>>

\* a get on a working backend returned an entry
C26_Hit ==
    /\ cacheCall.called /\ cacheCall.op = "get"
    /\ cache.backend # "none"
    /\ cacheCall.result # None

(* C26: the cache key separates (lowercased-trimmed text, pipe-joined context, *)
(* tag): two lookups have the same key only if they agree on all three, so an  *)
(* entry set under one triple is never returned by get for another triple.     *)
C26_KeySeparatesTriples ==
    /\ (cacheCall.called /\ cacheCall.op = "get") =>
        \A a \in CacheArgs, model_type \in ModelTypes :
            _generate_key(a[1], a[2], model_type)
                    = _generate_key(cacheCall.args[1], cacheCall.args[2],
                                    cacheCall.args[3])
                => KeyTriple(<<a[1], a[2], model_type>>) = KeyTriple(cacheCall.args)
    /\ C26_Hit =>
        \E a \in DOMAIN cacheCall.sets :
            /\ KeyTriple(a) = KeyTriple(cacheCall.args)
            /\ cacheCall.sets[a].correction = cacheCall.result

\* the key is a function of the triple: lookups that agree on the triple hit
\* the entries of one another
C26_KeyIsFunctionOfTriple ==
    C26_Hit =>
        \A a \in CacheArgs, model_type \in ModelTypes :
            KeyTriple(<<a[1], a[2], model_type>>) = KeyTriple(cacheCall.args)
                => _generate_key(a[1], a[2], model_type)
                    = _generate_key(cacheCall.args[1], cacheCall.args[2],
                                    cacheCall.args[3])

\* the dictionary words at edit distance 1..2 from a word
EditCandidates(word_lower) ==
    {dict_word \in dictionary :
        levenshtein_distance(word_lower, dict_word) \in 1..MaxEditDistance}

\* 0.7 * 1/(distance+1) + 0.3 * min(frequencyWeight/10, 1.0)
C27_Score(word_lower, candidate) ==
    RatAdd(RatMul(Rat(7, 10),
                  Rat(1, levenshtein_distance(word_lower, candidate) + 1)),
           RatMul(Rat(3, 10),
                  RatMin(RatDiv(get_frequency_weight(candidate), RatInt(10)),
                         RatInt(1))))

\* get_corrections was called for a word that is neither a misspelling key nor
\* a dictionary word and has an edit-distance candidate
C27_Unknown ==
    /\ spellCall.called
    /\ lower(spellCall.word) \notin DOMAIN common_misspellings
    /\ ~is_valid_word(lower(spellCall.word))
    /\ EditCandidates(lower(spellCall.word)) # {}

\* the words of a result
C27_Words(result) == {result[i][1] : i \in DOMAIN result}

\* some CandidateCap candidates of smallest distance (all of them when there
\* are no more) hold the result, and the result is the best scored of them
C27_TakenFromNearest(word_lower, result, all) ==
    LET d1 == {c \in all : levenshtein_distance(word_lower, c) = 1}
        d2 == all \ d1
        words == C27_Words(result)
        room == CandidateCap - Cardinality(d1) - Cardinality(words \cap d2)
        beaten(c) == \A i \in DOMAIN result : RatLe(C27_Score(word_lower, c), result[i][2])
    IN IF Cardinality(all) <= CandidateCap
       THEN \A c \in all \ words : beaten(c)
       ELSE IF Cardinality(d1) >= CandidateCap
       THEN /\ words \subseteq d1
            /\ Cardinality({c \in d1 \ words : beaten(c)})
                >= CandidateCap - Cardinality(words)
       ELSE /\ \A c \in d1 \ words : beaten(c)
            /\ room >= 0
            /\ Cardinality({c \in d2 \ words : beaten(c)}) >= room

(* C27: for a word that is neither a misspelling key nor a dictionary word and *)
(* has at least one edit-distance candidate, get_corrections returns at most   *)
(* max_suggestions pairs, each a dictionary word at edit distance 1..2 from    *)
(* the lowercased word with score 0.7 * 1/(distance+1) + 0.3 *                 *)
(* min(frequencyWeight/10, 1.0), in non-increasing score order, taken from the *)
(* (at most 20) candidates of smallest distance.                               *)
C27_RankedEditCandidates ==
    C27_Unknown =>
        /\ Len(spellCall.result) <= spellCall.max_suggestions
        /\ Len(spellCall.result)
            = Min2(spellCall.max_suggestions,
                   Min2(CandidateCap, Cardinality(EditCandidates(lower(spellCall.word)))))
        /\ \A i \in DOMAIN spellCall.result :
            /\ spellCall.result[i][1] \in EditCandidates(lower(spellCall.word))
            /\ spellCall.result[i][2]
                = C27_Score(lower(spellCall.word), spellCall.result[i][1])
        /\ \A i, j \in DOMAIN spellCall.result :
            i < j => RatLe(spellCall.result[j][2], spellCall.result[i][2])
        /\ \A i, j \in DOMAIN spellCall.result :
            i # j => spellCall.result[i][1] # spellCall.result[j][1]
        /\ C27_TakenFromNearest(lower(spellCall.word), spellCall.result,
                                EditCandidates(lower(spellCall.word)))

\* a word with more candidates than the cap keeps, answered with two of them
C27_Witness ==
    /\ C27_Unknown
    /\ Cardinality(EditCandidates(lower(spellCall.word))) > CandidateCap
    /\ Len(spellCall.result) = 2
    /\ C27_RankedEditCandidates

\* the request in hand with the cache bypassed
Bypassing == [request EXCEPT !.use_cache = FALSE]

\* what the neural corrector can answer if the request in hand calls it
C28_NeuralAnswers ==
    IF CallsNeural(service, Bypassing) THEN NeuralOutcomes(Bypassing) ELSE {NotCalled}

\* the response the request in hand receives when it is computed, for some
\* answer of the neural corrector, has this corrected text and confidence
C28_FreshGives(corrected, confidence) ==
    \E neural \in C28_NeuralAnswers :
        LET fresh == Strategy(service, cache, ngram, Bypassing, neural, now).result
        IN /\ fresh.ok
           /\ fresh.value.corrected = corrected
           /\ fresh.value.confidence = confidence

\* the request in hand was answered from the cache
C28_ServedFromCache == Answered /\ response.value.cached

(* C28: cache transparency. A response served from the cache carries the       *)
(* corrected text and the confidence that the same request (same text as       *)
(* typed, context, mode, use_neural, max_suggestions) receives when it is      *)
(* computed with the cache bypassed.                                           *)
C28_CacheTransparent ==
    C28_ServedFromCache =>
        C28_FreshGives(response.value.corrected, response.value.confidence)

(* C29: in every response of correct_text (all three modes, with or without    *)
(* n-gram blending, and on cache hits) the original field is the request's     *)
(* text after trimming, and changes_made is true exactly when corrected        *)
(* differs from that trimmed text.                                             *)
C29_OriginalIsRequestText ==
    Answered =>
        /\ response.value.original = strip(request.text)
        /\ response.value.changes_made
            <=> response.value.corrected # strip(request.text)

\* the same for the responses that the n-gram model did not rank
C29_OriginalWithoutRanking ==
    (/\ Answered
     /\ ~(/\ request.mode = "suggestions"
          /\ ~response.value.cached
          /\ ngram.trained
          /\ request.context # <<>>))
    => C29_OriginalIsRequestText

\* load was called and returned False
C30_LoadFailed ==
    /\ ngCall.called /\ ngCall.op = "load"
    /\ ngCall.result = Returned(FALSE)

(* C30: a failed NgramModel.load (missing file, unreadable data, or a snapshot *)
(* lacking one of the expected fields) leaves the model unchanged: order, the  *)
(* four count tables, vocabulary, total_words and trained are what they were   *)
(* before the call.                                                            *)
C30_FailedLoadLeavesModel == C30_LoadFailed => ngCall.after = ngCall.before

\* the same for a file that is missing, is no pickle, holds no dict, or holds a
\* dict that lacks its first field
C30_UnreadLoadLeavesModel ==
    (/\ C30_LoadFailed
     /\ ngCall.file.exists /\ ngCall.file.damage = "truncated"
            => "order" \notin DOMAIN ngCall.file.obj.items)
    => ngCall.after = ngCall.before

====
